---- MODULE Spec2Model ----
(***************************************************************************)
(* Model of the comment-tree fetcher of hackernews/client.go:              *)
(* GetStoryContent, GetStoryWithComments, getComment and                   *)
(* getCommentsParallel, with the goroutines, the WaitGroup and the         *)
(* buffered result channel of every getCommentsParallel call               *)
(* (specification Spec), and of the message splitter of the telegram bot:  *)
(* sendLongMessage and sendVeryLongParagraph (specification SpecChunk).    *)
(***************************************************************************)
EXTENDS Integers, Sequences, FiniteSets, TLC

(***************************************************************************)
(* Program constants                                                       *)
(***************************************************************************)
maxComments == 20
maxChildren == 5
storyDepth == 2
StatusOK == 200

(***************************************************************************)
(* Bounds of the exploration                                               *)
(***************************************************************************)
\* transient store failures (transport error, non-200) injected in one run
MaxFailures == 1
\* widest call whose goroutines are explored in every starting order
MaxUnordered == 3
\* largest depth handed to a direct getCommentsParallel call
MaxDepth == 3

(***************************************************************************)
(* Helpers                                                                 *)
(***************************************************************************)
Range(a, b) == [i \in 1..(b - a + 1) |-> a + i - 1]

Elems(s) == {s[i] : i \in 1..Len(s)}

IndexOf(s, x) == CHOOSE i \in 1..Len(s) : s[i] = x

(***************************************************************************)
(* The item store: the documents served by                                 *)
(* https://hacker-news.firebaseio.com/v0/item/<id>.json                    *)
(***************************************************************************)
StoryIds == {100, 102}

CommentIds == (1..23) \cup (30..35) \cup (40..44) \cup {50, 51, 60}

Root == 0

CallIds == {Root} \cup CommentIds

\* items whose text is empty (deleted placeholders)
DeletedIds == {31, 33} \cup (5..21) \cup (40..44)

\* items that are not comments
NonCommentIds == StoryIds \cup {4, 32}

ItemKids(i) ==
  CASE i = 100 -> <<1>> \o Range(4, 23)
    [] i = 1   -> Range(30, 35)
    [] i = 2   -> Range(40, 44)
    [] i = 5   -> <<60>>
    [] i = 30  -> <<50>>
    [] i = 50  -> <<51>>
    [] OTHER   -> <<>>

ItemText(i) == IF i \in DeletedIds THEN "" ELSE "text"

ItemType(i) == IF i \in NonCommentIds THEN "story" ELSE "comment"

\* the Comment struct as decoded from the store document
Comment(i) ==
  [ID |-> i, Text |-> ItemText(i), Type |-> ItemType(i),
   Kids |-> ItemKids(i), Children |-> <<>>]

NoComment == [ID |-> 0, Text |-> "", Type |-> "", Kids |-> <<>>, Children |-> <<>>]

\* what one HTTP request can produce: a transport error, or a status code
Responses ==
  {[err |-> TRUE, status |-> 0], [err |-> FALSE, status |-> StatusOK],
   [err |-> FALSE, status |-> 404]}

\* what the store did, as the environment sees it
StoreFailure(r) == r.err \/ r.status # 200

(***************************************************************************)
(* Inputs                                                                  *)
(***************************************************************************)
DirectIdLists == {<<>>, <<1, 2, 3>>, <<4, 5>>}

\* depths handed to a direct call, the negative one included
Depths == (0 - 1)..MaxDepth

Entries ==
  {[kind |-> "story", storyID |-> s, ids |-> <<>>, depth |-> storyDepth] : s \in StoryIds}
  \cup
  {[kind |-> "direct", storyID |-> 0, ids |-> l, depth |-> d] :
     l \in DirectIdLists, d \in Depths}

(***************************************************************************)
(* State                                                                   *)
(***************************************************************************)
VARIABLES
  entry,      \* the call under study and its arguments
  mainPc,     \* position of the calling goroutine: start, collect, done
  mainErr,    \* the error returned to the caller (TRUE: non-nil)
  panicked,   \* the process died of a send on a closed channel
  result,     \* the comments returned to the caller
  storyKids,  \* story.Kids after GetStoryWithComments truncated it
  pc,         \* per comment id: none, ready, wait, resolved, done
  owner,      \* per comment id: the getCommentsParallel call that spawned it
  node,       \* per comment id: the comment struct its getComment builds
  callState,  \* per call: none, active, returned
  callIds,    \* per call: commentIDs
  callDepth,  \* per call: maxDepth
  chan,       \* per call: contents of commentChan
  closed,     \* per call: number of close(commentChan) executed
  comments,   \* per call: the comments slice of the collecting loop
  wg,         \* per call: the WaitGroup counter
  reqCount,   \* per comment id: requests issued to the store
  reqDepth,   \* per comment id: maxDepth of the getComment that issued it
  resp,       \* per comment id: none, ok, failed
  failures,   \* transient failures injected so far
  content,    \* what GetStoryContent wrote to its builder, <<>> before it
  contentErr  \* the error returned by GetStoryContent (TRUE: non-nil)

\* the telegram bot: one call of sendLongMessage
VARIABLES
  cIn,             \* the arguments: text and maxLength
  cPc,             \* idle, start, para, sentence, sentenceEnd, paraEnd, done
  paragraphs,      \* sendLongMessage: strings.Split(text, "\n\n")
  pIdx,            \* sendLongMessage: index of the paragraph to process
  currentMessage,  \* sendLongMessage: the builder
  sentences,       \* sendVeryLongParagraph: strings.Split(paragraph, "。")
  sIdx,            \* sendVeryLongParagraph: index of the sentence to process
  sentenceMessage, \* sendVeryLongParagraph: the builder
  sent,            \* every text handed to sendMessage, in order
  cErr             \* the error returned by sendLongMessage (TRUE: non-nil)

fetchVars ==
  <<entry, mainPc, mainErr, panicked, result, storyKids, pc, owner, node, callState,
    callIds, callDepth, chan, closed, comments, wg, reqCount, reqDepth, resp,
    failures, content, contentErr>>

chunkVars ==
  <<cIn, cPc, paragraphs, pIdx, currentMessage, sentences, sIdx, sentenceMessage,
    sent, cErr>>

\* one call of SendDailySummary, SendDailySummaryWithNumbers or
\* SendDetailedSummary
VARIABLES
  sIn,   \* the call and its arguments
  sPc,   \* idle, start, chunking, done
  sErr   \* the error returned by the call (TRUE: non-nil)

sendVars == <<sIn, sPc, sErr>>

\* the bot
VARIABLES
  storySummaries  \* Bot.storySummaries: the summary stored for each date

\* processMessages and the goroutines it starts
VARIABLES
  received,     \* the updates processMessages has taken from the channel
  procPc,       \* processMessages: none, running, returned
  stopHandler,  \* Bot.stopHandler: open or closed
  handlers,     \* for every update: the update and the goroutine started for it
  now,          \* the date time.Now() gives
  stores        \* the summaries stored, oldest first

handlerVars == <<received, procPc, stopHandler, handlers, now, stores>>

botVars == <<storySummaries, handlerVars>>

\* the logger, the goroutine asyncWriter, one caller of the Log functions
\* and one caller of Close
VARIABLES
  config,       \* Logger.config
  isRunning,    \* Logger.isRunning
  buffer,       \* the entries held by the channel Logger.buffer
  stopChan,     \* Logger.stopChan: nil, open or closed
  written,      \* the entries passed to writeToFile, in order
  writerPc,     \* asyncWriter: none, select, write, drain, exited
  writerEntry,  \* the entry asyncWriter has received
  logPc,        \* the caller of the Log functions: idle, checked
  logIn,        \* the arguments of the call that caller is in
  logEntry,     \* the entry that caller has built
  logCalls,     \* the Log calls begun so far
  closePc,      \* the caller of Close: idle, checked, stopped, waiting, returned, panic
  accepted,     \* the timestamps of the entries the channel has accepted
  atClose       \* accepted at the time Close was called

logVars ==
  <<config, isRunning, buffer, stopChan, written, writerPc, writerEntry, logPc, logIn, logEntry,
    logCalls, closePc, accepted, atClose>>

\* the configuration: Load, the reload callback of watchConfig and one
\* caller of GetConfig
VARIABLES
  cfgFile,       \* the configuration file: its version and whether it reads and decodes
  viperConfig,   \* the file as the viper instance has read it
  globalConfig,  \* the global pointer: NilConfig or the configuration it points to
  configMutex,   \* who holds configMutex: the writer, and the number of readers
  loadPc,        \* Load: start, lock, store, unlock, done, failed
  reloadPc,      \* the callback: idle, read, unmarshal, lock, store, unlock
  newConfig,     \* the configuration that Load or the callback builds
  pending,       \* the change events not yet handled
  getPc,         \* GetConfig: idle, locked, read
  seen,          \* what GetConfig returned last
  loaded         \* the versions loaded with success, oldest first

cfgVars ==
  <<cfgFile, viperConfig, globalConfig, configMutex, loadPc, reloadPc, newConfig, pending,
    getPc, seen, loaded>>

vars == <<fetchVars, chunkVars, sendVars, botVars, logVars, cfgVars>>

taskVars == <<pc, owner, node>>

callVars == <<callState, callIds, callDepth, chan, closed, comments, wg>>

reqVars == <<reqCount, reqDepth, resp, failures>>

mainVars == <<mainPc, mainErr, panicked, result, storyKids>>

\* the dates a summary is stored under, and the value of a date without one
Dates == {"2024-01-01", "2024-01-02"}

NoSummary == [Date |-> "", StorySummaries |-> <<>>]

\* no summary call is under way
SendIdle ==
  /\ sIn = [kind |-> "none"]
  /\ sPc = "idle"
  /\ sErr = FALSE

\* the bound on the updates, and the record of an update not yet received
MaxUpdates == 2

NoHandler ==
  [pc |-> "none", update |-> [message |-> FALSE], today |-> "", story |-> 0,
   summary |-> NoSummary, replies |-> <<>>, fetches |-> 0, ai |-> 0, sent |-> 0,
   err |-> FALSE]

\* processMessages is not started
HandlersIdle ==
  /\ received = 0
  /\ procPc = "none"
  /\ stopHandler = "open"
  /\ handlers = [h \in 1..MaxUpdates |-> NoHandler]
  /\ now = "2024-01-01"
  /\ stores = <<>>

\* the bot as NewBot returns it
BotFresh ==
  /\ storySummaries = [d \in Dates |-> NoSummary]
  /\ HandlersIdle

\* the value of an entry variable that holds no entry
NoEntry == [Type |-> "none"]

\* a logger that is not in use: NewLogger with Enabled = false, no call made
LogIdle ==
  /\ config = [Enabled |-> FALSE, AsyncWrite |-> FALSE, BufferSize |-> 0, MaxContentLength |-> 0]
  /\ isRunning = FALSE
  /\ buffer = <<>>
  /\ stopChan = "nil"
  /\ written = <<>>
  /\ writerPc = "none"
  /\ writerEntry = NoEntry
  /\ logPc = "idle"
  /\ logIn = [fn |-> "none"]
  /\ logEntry = NoEntry
  /\ logCalls = 0
  /\ closePc = "idle"
  /\ accepted = {}
  /\ atClose = {}

\* the value of the global pointer before Load, and of a local
\* configuration not yet built
NilConfig == [version |-> 0, complete |-> FALSE]

\* the configuration is not in use
ConfigIdle ==
  /\ cfgFile = [version |-> 1, state |-> "ok"]
  /\ viperConfig = [version |-> 0, state |-> "ok"]
  /\ globalConfig = NilConfig
  /\ configMutex = [writer |-> "none", readers |-> 0]
  /\ loadPc = "done"
  /\ reloadPc = "idle"
  /\ newConfig = NilConfig
  /\ pending = 0
  /\ getPc = "idle"
  /\ seen = NilConfig
  /\ loaded = <<>>

\* no call of sendLongMessage is under way
ChunkIdle ==
  /\ cIn = [text |-> <<>>, maxLength |-> 0]
  /\ cPc = "idle"
  /\ paragraphs = <<>>
  /\ pIdx = 0
  /\ currentMessage = <<>>
  /\ sentences = <<>>
  /\ sIdx = 0
  /\ sentenceMessage = <<>>
  /\ sent = <<>>
  /\ cErr = FALSE

\* the fetcher before its first step, but for entry and mainPc
FetchFresh ==
  /\ content = <<>>
  /\ contentErr = FALSE
  /\ mainErr = FALSE
  /\ panicked = FALSE
  /\ result = <<>>
  /\ storyKids = <<>>
  /\ pc = [t \in CommentIds |-> "none"]
  /\ owner = [t \in CommentIds |-> Root]
  /\ node = [t \in CommentIds |-> NoComment]
  /\ callState = [c \in CallIds |-> "none"]
  /\ callIds = [c \in CallIds |-> <<>>]
  /\ callDepth = [c \in CallIds |-> 0]
  /\ chan = [c \in CallIds |-> <<>>]
  /\ closed = [c \in CallIds |-> 0]
  /\ comments = [c \in CallIds |-> <<>>]
  /\ wg = [c \in CallIds |-> 0]
  /\ reqCount = [t \in CommentIds |-> 0]
  /\ reqDepth = [t \in CommentIds |-> 0]
  /\ resp = [t \in CommentIds |-> "none"]
  /\ failures = 0

\* no call of the fetcher is under way
FetchIdle ==
  /\ entry = [kind |-> "direct", storyID |-> 0, ids |-> <<>>, depth |-> 0]
  /\ mainPc = "done"
  /\ FetchFresh

Init ==
  /\ ConfigIdle
  /\ ChunkIdle
  /\ SendIdle
  /\ LogIdle
  /\ BotFresh
  /\ entry \in Entries
  /\ mainPc = "start"
  /\ FetchFresh

(***************************************************************************)
(* Pure parts of the code                                                  *)
(***************************************************************************)
TruncateOffByOne(kids, max) ==
  IF Len(kids) > max + 1 THEN SubSeq(kids, 1, max + 1) ELSE kids

TruncateNone(kids, max) == kids

\* kids[:max] when len(kids) > max
Truncate(kids, max) == IF Len(kids) > max THEN SubSeq(kids, 1, max) ELSE kids

DepthExhaustedNegativeOnly(maxDepth) == maxDepth < 0

\* the first test of getComment: return nil, nil without a request
DepthExhausted(maxDepth) == maxDepth <= 0

FailedErrOnly(r) == r.err

\* getComment returns (nil, err): transport error or status other than 200
Failed(r) == r.err \/ r.status # StatusOK

IsValidCommentAnyType(c) == ~(c.Text = "")

\* the test of getComment on the decoded comment
IsValidComment(c) == ~(c.Text = "" \/ c.Type # "comment")

DescendsAtLeaf(c, maxDepth) == Len(c.Kids) > 0 /\ maxDepth >= 1

\* does getComment descend into the kids of c
Descends(c, maxDepth) == Len(c.Kids) > 0 /\ maxDepth > 1

NestedDepthSame(maxDepth) == maxDepth

\* the depth handed to the nested getCommentsParallel call
NestedDepth(maxDepth) == maxDepth - 1

\* the environment may inject a failure only within the budget
Allowed(r) == StoreFailure(r) => failures < MaxFailures

(***************************************************************************)
(* getCommentsParallel, lines 168-187: make the channel, spawn one         *)
(* goroutine per id (wg.Add(1) each), start the closer goroutine           *)
(***************************************************************************)
SpawnCall(c, ids, maxDepth) ==
  /\ callState' = [callState EXCEPT ![c] = "active"]
  /\ callIds' = [callIds EXCEPT ![c] = ids]
  /\ callDepth' = [callDepth EXCEPT ![c] = maxDepth]
  /\ wg' = [wg EXCEPT ![c] = Len(ids)]
  /\ owner' = [t \in CommentIds |-> IF t \in Elems(ids) THEN c ELSE owner[t]]
  /\ UNCHANGED <<chan, closed, comments>>

SpawnPc(ids) == [t \in CommentIds |-> IF t \in Elems(ids) THEN "ready" ELSE pc[t]]

\* a direct call getCommentsParallel(ids, depth)
StartDirect ==
  /\ ~panicked
  /\ mainPc = "start"
  /\ entry.kind = "direct"
  /\ IF Len(entry.ids) = 0
       THEN /\ mainPc' = "done"
            /\ result' = <<>>
            /\ UNCHANGED <<pc, owner, callVars>>
       ELSE /\ mainPc' = "collect"
            /\ SpawnCall(Root, entry.ids, entry.depth)
            /\ pc' = SpawnPc(entry.ids)
            /\ UNCHANGED result
  /\ UNCHANGED <<entry, mainErr, panicked, storyKids, node, reqVars, content, contentErr, chunkVars, sendVars, botVars, logVars, cfgVars>>

\* GetStoryWithComments(storyID)
GetStoryWithComments ==
  /\ ~panicked
  /\ mainPc = "start"
  /\ entry.kind = "story"
  /\ \E r \in Responses :
       /\ Allowed(r)
       /\ failures' = IF StoreFailure(r) THEN failures + 1 ELSE failures
       /\ IF Failed(r)
            THEN /\ mainPc' = "done"
                 /\ mainErr' = TRUE
                 /\ UNCHANGED <<result, storyKids, pc, owner, callVars>>
            ELSE IF Len(ItemKids(entry.storyID)) > 0
                   THEN /\ storyKids' = Truncate(ItemKids(entry.storyID), maxComments)
                        /\ mainPc' = "collect"
                        /\ SpawnCall(Root, storyKids', storyDepth)
                        /\ pc' = SpawnPc(storyKids')
                        /\ UNCHANGED <<mainErr, result>>
                   ELSE /\ mainPc' = "done"
                        /\ storyKids' = ItemKids(entry.storyID)
                        /\ result' = <<>>
                        /\ UNCHANGED <<mainErr, pc, owner, callVars>>
  /\ UNCHANGED <<entry, panicked, node, reqCount, reqDepth, resp, content, contentErr, chunkVars, sendVars, botVars, logVars, cfgVars>>

(***************************************************************************)
(* The goroutine of one id: getComment up to its return or up to the       *)
(* nested getCommentsParallel call.  A panic ends the process: no action   *)
(* is enabled once panicked holds.                                         *)
(***************************************************************************)
\* Scheduling of the goroutines of one call.  In a call on at most
\* MaxUnordered ids the goroutines begin in any order; in a wider call (the
\* 20 kids of a story, the 5 kids of a comment) the exploration lets them
\* issue their request in spawn order only.  Everything after the request
\* (nested calls, sends, close, collection) interleaves freely in both cases.
Runnable(t) ==
  LET ids == callIds[owner[t]]
  IN Len(ids) > MaxUnordered =>
       \A i \in 1..(IndexOf(ids, t) - 1) : pc[ids[i]] # "ready"

\* a goroutine that asks again for an id it got nothing for (once)
DropRetry(t, c) ==
  /\ pc' = [pc EXCEPT ![t] = IF reqCount[t] < 1 THEN "ready" ELSE "done"]
  /\ wg' = [wg EXCEPT ![c] = IF reqCount[t] < 1 THEN wg[c] ELSE wg[c] - 1]
  /\ UNCHANGED <<owner, node, callState, callIds, callDepth, chan, closed, comments>>

\* the goroutine ends without sending: defer wg.Done()
Drop(t, c) ==
  /\ pc' = [pc EXCEPT ![t] = "done"]
  /\ wg' = [wg EXCEPT ![c] = wg[c] - 1]
  /\ UNCHANGED <<owner, node, callState, callIds, callDepth, chan, closed, comments>>

getComment(t) ==
  /\ ~panicked
  /\ pc[t] = "ready"
  /\ Runnable(t)
  /\ LET c == owner[t]
         maxDepth == callDepth[c]
     IN IF DepthExhausted(maxDepth)
          THEN /\ Drop(t, c)
               /\ UNCHANGED reqVars
          ELSE \E r \in Responses :
                 /\ Allowed(r)
                 /\ failures' = IF StoreFailure(r) THEN failures + 1 ELSE failures
                 /\ reqCount' = [reqCount EXCEPT ![t] = reqCount[t] + 1]
                 /\ reqDepth' = [reqDepth EXCEPT ![t] = maxDepth]
                 /\ resp' = [resp EXCEPT ![t] = IF StoreFailure(r) THEN "failed" ELSE "ok"]
                 /\ IF Failed(r) \/ ~IsValidComment(Comment(t))
                      THEN Drop(t, c)
                      ELSE IF Descends(Comment(t), maxDepth)
                             THEN LET kids == Truncate(Comment(t).Kids, maxChildren)
                                  IN /\ node' = [node EXCEPT ![t] =
                                                   [Comment(t) EXCEPT !.Kids = kids]]
                                     /\ SpawnCall(t, kids, NestedDepth(maxDepth))
                                     /\ pc' = [SpawnPc(kids) EXCEPT ![t] = "wait"]
                             ELSE /\ node' = [node EXCEPT ![t] = Comment(t)]
                                  /\ pc' = [pc EXCEPT ![t] = "resolved"]
                                  /\ UNCHANGED <<owner, callVars>>
  /\ UNCHANGED <<entry, mainVars, content, contentErr, chunkVars, sendVars, botVars, logVars, cfgVars>>

\* a goroutine that appends to the slice of the parent call itself
SendShared(t) ==
  /\ ~panicked
  /\ pc[t] = "resolved"
  /\ LET c == owner[t]
     IN /\ comments' = [comments EXCEPT ![c] = Append(comments[c], node[t])]
        /\ wg' = [wg EXCEPT ![c] = wg[c] - 1]
        /\ pc' = [pc EXCEPT ![t] = "done"]
  /\ UNCHANGED <<entry, mainVars, owner, node, callState, callIds, callDepth, chan,
                 closed, reqVars, content, contentErr, chunkVars, sendVars, botVars, logVars, cfgVars>>

\* commentChan <- *comment, then the deferred wg.Done(); the send waits
\* while the buffer is full and panics when the channel is closed
Send(t) ==
  /\ ~panicked
  /\ pc[t] = "resolved"
  /\ LET c == owner[t]
     IN IF closed[c] > 0
          THEN /\ panicked' = TRUE
               /\ UNCHANGED <<chan, wg, pc>>
          ELSE /\ Len(chan[c]) < Len(callIds[c])
               /\ chan' = [chan EXCEPT ![c] = Append(chan[c], node[t])]
               /\ wg' = [wg EXCEPT ![c] = wg[c] - 1]
               /\ pc' = [pc EXCEPT ![t] = "done"]
               /\ UNCHANGED panicked
  /\ UNCHANGED <<entry, mainPc, mainErr, result, storyKids, owner, node, callState,
                 callIds, callDepth, closed, comments, reqVars, content, contentErr, chunkVars, sendVars, botVars, logVars, cfgVars>>

CloserNoWait(c) ==
  /\ ~panicked
  /\ callState[c] = "active"
  /\ closed[c] = 0
  /\ closed' = [closed EXCEPT ![c] = closed[c] + 1]
  /\ UNCHANGED <<entry, mainVars, taskVars, callState, callIds, callDepth, chan,
                 comments, wg, reqVars, content, contentErr, chunkVars, sendVars, botVars, logVars, cfgVars>>

\* the closer goroutine: wg.Wait(); close(commentChan)
Closer(c) ==
  /\ ~panicked
  /\ callState[c] = "active"
  /\ closed[c] = 0
  /\ wg[c] = 0
  /\ closed' = [closed EXCEPT ![c] = closed[c] + 1]
  /\ UNCHANGED <<entry, mainVars, taskVars, callState, callIds, callDepth, chan,
                 comments, wg, reqVars, content, contentErr, chunkVars, sendVars, botVars, logVars, cfgVars>>

\* one iteration of  for comment := range commentChan
Collect(c) ==
  /\ ~panicked
  /\ callState[c] = "active"
  /\ Len(chan[c]) > 0
  /\ comments' = [comments EXCEPT ![c] = Append(comments[c], Head(chan[c]))]
  /\ chan' = [chan EXCEPT ![c] = Tail(chan[c])]
  /\ UNCHANGED <<entry, mainVars, taskVars, callState, callIds, callDepth, closed,
                 wg, reqVars, content, contentErr, chunkVars, sendVars, botVars, logVars, cfgVars>>

\* the range loop ends on the closed, drained channel: return comments
Return(c) ==
  /\ ~panicked
  /\ callState[c] = "active"
  /\ closed[c] > 0
  /\ Len(chan[c]) = 0
  /\ callState' = [callState EXCEPT ![c] = "returned"]
  /\ IF c = Root
       THEN /\ mainPc' = "done"
            /\ result' = comments[c]
            /\ UNCHANGED taskVars
       ELSE /\ node' = [node EXCEPT ![c].Children = comments[c]]
            /\ pc' = [pc EXCEPT ![c] = "resolved"]
            /\ UNCHANGED <<mainPc, result, owner>>
  /\ UNCHANGED <<entry, mainErr, panicked, storyKids, callIds, callDepth, chan,
                 closed, comments, wg, reqVars, content, contentErr, chunkVars, sendVars, botVars, logVars, cfgVars>>

(***************************************************************************)
(* GetStoryContent: the text built for a story.  The builder is modelled   *)
(* as the sequence of the pieces written to it; the piece of a comment or  *)
(* of a reply stands for its formatted author and cleaned text.            *)
(***************************************************************************)
maxContentComments == 10
maxContentChildren == 3

\* stories that have a text of their own
StoryHasText(s) == s = 100

Piece(k, n, id) == [k |-> k, n |-> n, id |-> id]

\* the pieces written for the first children of a comment, lines 230-235
RECURSIVE ReplyPieces(_, _)
ReplyPieces(children, j) ==
  IF j > Len(children) \/ j > maxContentChildren THEN <<>>
  ELSE <<Piece("reply", 0, children[j].ID)>> \o ReplyPieces(children, j + 1)

\* the pieces written for the first comments, lines 221-238
RECURSIVE CommentPieces(_, _)
CommentPieces(cs, i) ==
  IF i > Len(cs) \/ i > maxContentComments THEN <<>>
  ELSE <<Piece("comment", i, cs[i].ID)>> \o ReplyPieces(cs[i].Children, 1)
         \o <<Piece("newline", 0, 0)>> \o CommentPieces(cs, i + 1)

\* the header and the story's own text, lines 203-213
HeaderPieces(s) ==
  <<Piece("title", 0, s), Piece("url", 0, s), Piece("hnurl", 0, s),
    Piece("score", 0, s)>>
  \o (IF StoryHasText(s) THEN <<Piece("text", 0, s)>> ELSE <<>>)

\* the comment section, lines 216-239
CommentSection(err, cs) ==
  IF err THEN <<>>
  ELSE IF Len(cs) > 0 THEN <<Piece("hot", 0, 0)>> \o CommentPieces(cs, 1)
  ELSE <<>>

\* a GetStoryContent that hands the error of GetStoryWithComments on
GetStoryContentStrict ==
  /\ ~panicked
  /\ entry.kind = "story"
  /\ mainPc = "done"
  /\ content = <<>>
  /\ ~contentErr
  /\ IF mainErr
       THEN content' = <<>> /\ contentErr' = TRUE
       ELSE /\ content' = HeaderPieces(entry.storyID) \o CommentSection(mainErr, result)
            /\ contentErr' = FALSE
  /\ UNCHANGED <<entry, mainVars, taskVars, callVars, reqVars, chunkVars, sendVars, botVars, logVars, cfgVars>>

\* GetStoryContent, from the return of GetStoryWithComments on
GetStoryContent ==
  /\ ~panicked
  /\ entry.kind = "story"
  /\ mainPc = "done"
  /\ content = <<>>
  /\ content' = HeaderPieces(entry.storyID) \o CommentSection(mainErr, result)
  /\ contentErr' = FALSE
  /\ UNCHANGED <<entry, mainVars, taskVars, callVars, reqVars, chunkVars, sendVars, botVars, logVars, cfgVars>>

Next ==
  \/ StartDirect
  \/ GetStoryWithComments
  \/ \E t \in CommentIds : getComment(t)
  \/ \E t \in CommentIds : Send(t)
  \/ \E c \in CallIds : Closer(c)
  \/ \E c \in CallIds : Collect(c)
  \/ \E c \in CallIds : Return(c)
  \/ GetStoryContent

Spec == Init /\ [][Next]_vars

TypeOK ==
  /\ mainPc \in {"start", "collect", "done"}
  /\ \A t \in CommentIds : pc[t] \in {"none", "ready", "wait", "resolved", "done"}
  /\ \A c \in CallIds : wg[c] >= 0

(***************************************************************************)
(* Vocabulary of the properties, stated on the store and on the history    *)
(* of requests, not on the code's own tests                                *)
(***************************************************************************)
NodeIds(s) == {s[i].ID : i \in 1..Len(s)}

NoDuplicates(s) == \A i, j \in 1..Len(s) : s[i].ID = s[j].ID => i = j

\* the first n elements of s, in order
FirstN(s, n) == [i \in 1..(IF Len(s) < n THEN Len(s) ELSE n) |-> s[i]]

\* the store holds a renderable comment under id t
ValidContent(t) == ItemText(t) # "" /\ ItemType(t) = "comment"

\* the request for t succeeded and brought a renderable comment
FetchedValid(t) == resp[t] = "ok" /\ ValidContent(t)

\* the request for t failed, or brought something that is not renderable
FetchedBad(t) == resp[t] = "failed" \/ (resp[t] = "ok" /\ ~ValidContent(t))

\* every node a call holds or has handed over
HeldBy(c) == NodeIds(chan[c]) \cup NodeIds(comments[c])

InFlight == Cardinality({t \in CommentIds : pc[t] \in {"ready", "wait", "resolved"}})

IsDirect == entry.kind = "direct"

IsStory == entry.kind = "story"

\* C1: a getCommentsParallel call with depth >= 1 returns exactly one node
\* for every dispatched id whose fetch succeeded with valid content and no
\* node for any other id, whatever the other ids did; so the result is empty
\* only when no dispatched id was fetched successfully with valid content.
C1_SoftFail ==
  /\ \A c \in CallIds :
       (callState[c] = "returned" /\ callDepth[c] >= 1) =>
         /\ NoDuplicates(comments[c])
         /\ NodeIds(comments[c]) = {t \in Elems(callIds[c]) : FetchedValid(t)}
  /\ (mainPc = "done" /\ callState[Root] = "returned" /\ callDepth[Root] >= 1) =>
         /\ NoDuplicates(result)
         /\ NodeIds(result) = {t \in Elems(callIds[Root]) : FetchedValid(t)}
         /\ (result = <<>> <=> \A t \in Elems(callIds[Root]) : ~FetchedValid(t))

\* ids 1, 2, 3 were asked for, 2 failed at the store, 1 and 3 came back
C1_Witness ==
  /\ IsDirect /\ entry.ids = <<1, 2, 3>> /\ entry.depth >= 1
  /\ mainPc = "done"
  /\ resp[2] = "failed"
  /\ NodeIds(result) = {1, 3}

\* C2: an item whose fetch failed or whose content is invalid appears in no
\* channel, no comments slice, no children list and no result, no error is
\* returned because of it, and none of its child ids is spawned or fetched.
C2_DroppedSilently ==
  \A t \in CommentIds :
    FetchedBad(t) =>
      /\ \A c \in CallIds : t \notin HeldBy(c)
      /\ t \notin NodeIds(result)
      /\ \A p \in CommentIds : t \notin NodeIds(node[p].Children)
      /\ pc[t] = "done"
      /\ callState[t] = "none"
      /\ \A k \in Elems(ItemKids(t)) : reqCount[k] = 0 /\ pc[k] = "none"
      /\ mainErr = FALSE /\ panicked = FALSE

\* the deleted item 5 and the non-comment item 4 were fetched, the call
\* returned without them, and the kid 60 of item 5 was never requested
C2_Witness ==
  /\ mainPc = "done"
  /\ mainErr = FALSE
  /\ resp[4] = "ok" /\ resp[5] = "ok"
  /\ reqCount[60] = 0
  /\ callState[Root] = "returned"

\* C3: getCommentsParallel with depth 0 and a non-empty id list issues no
\* request to the store and returns an empty sequence.
C3_DepthZero ==
  (IsDirect /\ entry.depth = 0 /\ entry.ids # <<>>) =>
    /\ \A t \in CommentIds : reqCount[t] = 0
    /\ \A c \in CallIds : chan[c] = <<>> /\ comments[c] = <<>>
    /\ mainPc = "done" => result = <<>>

C3_Witness ==
  /\ IsDirect /\ entry.depth = 0 /\ entry.ids = <<1, 2, 3>>
  /\ mainPc = "done"
  /\ \A t \in Elems(entry.ids) : pc[t] = "done"

\* C4: with depth 1 every resolved node is a leaf: it has no children, it
\* makes no nested call and none of its kids is requested, whatever kids the
\* store lists for it; ids <<1,2,3>> with 2 failing give nodes 1 and 3 only.
C4_LeafAtDepthOne ==
  \A c \in CallIds :
    (callState[c] # "none" /\ callDepth[c] = 1) =>
      /\ \A t \in Elems(callIds[c]) :
           /\ node[t].Children = <<>>
           /\ callState[t] = "none"
           /\ \A k \in Elems(ItemKids(t)) : reqCount[k] = 0 /\ pc[k] = "none"
      /\ \A i \in 1..Len(comments[c]) : comments[c][i].Children = <<>>
      /\ \A i \in 1..Len(chan[c]) : chan[c][i].Children = <<>>
      /\ (c = Root /\ mainPc = "done") =>
           \A i \in 1..Len(result) : result[i].Children = <<>>

\* scenario C of the specification: node 1, which has kids in the store, is
\* returned as a leaf next to node 3, and node 2 is missing
C4_Witness ==
  /\ IsDirect /\ entry.ids = <<1, 2, 3>> /\ entry.depth = 1
  /\ mainPc = "done"
  /\ resp[2] = "failed"
  /\ NodeIds(result) = {1, 3}
  /\ \A i \in 1..Len(result) : result[i].Children = <<>>
  /\ Len(ItemKids(1)) > 0

\* C5: with depth > 1 the children of a resolved node are what the nested
\* getCommentsParallel call on its first 5 kids with depth - 1 returned: one
\* node for each of the first 5 kids fetched successfully with valid
\* content, and nothing else; the node handed to the parent carries them.
C5_ChildrenAreNestedForest ==
  /\ \A t \in CommentIds :
       (pc[t] \in {"resolved", "done"} /\ FetchedValid(t) /\ callDepth[owner[t]] > 1) =>
         /\ NoDuplicates(node[t].Children)
         /\ NodeIds(node[t].Children) =
              {k \in Elems(FirstN(ItemKids(t), 5)) : FetchedValid(k)}
         /\ ItemKids(t) # <<>> =>
              /\ callState[t] = "returned"
              /\ callIds[t] = FirstN(ItemKids(t), 5)
              /\ callDepth[t] = callDepth[owner[t]] - 1
              /\ node[t].Children = comments[t]
  /\ \A c \in CallIds :
       /\ \A i \in 1..Len(chan[c]) : chan[c][i] = node[chan[c][i].ID]
       /\ \A i \in 1..Len(comments[c]) : comments[c][i] = node[comments[c][i].ID]
  /\ \A i \in 1..Len(result) : result[i] = node[result[i].ID]

\* node 1 has six kids in the store; the valid ones among its first five
\* are 30 and 34, the sixth (35) is valid too but is not a child
C5_Witness ==
  /\ mainPc = "done"
  /\ callDepth[Root] = 2
  /\ \E i \in 1..Len(result) :
       /\ result[i].ID = 1
       /\ NodeIds(result[i].Children) = {30, 34}
  /\ ValidContent(35)

\* the list a call was made on and the cap that applies to it
SourceIds(c) ==
  IF c = Root THEN (IF IsStory THEN ItemKids(entry.storyID) ELSE entry.ids)
  ELSE ItemKids(c)

\* C6: at every level the ids dispatched are the first cap ids of the list
\* in original order (20 for the kids of the story, 5 for the kids of a
\* comment, per node), and no id beyond the cap is ever spawned or fetched.
C6_FanOutCap ==
  /\ \A c \in CallIds :
       callState[c] # "none" =>
         /\ c = Root /\ IsStory => callIds[c] = FirstN(SourceIds(c), 20)
         /\ c # Root => callIds[c] = FirstN(SourceIds(c), 5)
         /\ Len(callIds[c]) <= (IF c = Root /\ IsDirect THEN Len(entry.ids)
                                ELSE IF c = Root THEN 20 ELSE 5)
         /\ wg[c] <= Len(callIds[c])
  /\ \A t \in CommentIds :
       (pc[t] # "none" \/ reqCount[t] > 0) =>
         /\ callState[owner[t]] # "none"
         /\ t \in Elems(callIds[owner[t]])
  /\ IsStory => \A i \in 21..Len(ItemKids(entry.storyID)) :
                  pc[ItemKids(entry.storyID)[i]] = "none"
  /\ \A p \in CommentIds : \A i \in 6..Len(ItemKids(p)) :
       pc[ItemKids(p)[i]] = "none" /\ reqCount[ItemKids(p)[i]] = 0

\* the story has 21 kids: the 20th (id 22) was fetched and returned, the
\* 21st (id 23), a valid comment, was not fetched; comment 1 has 6 kids: the
\* 5th (34) was fetched, the 6th (35) was not
C6_Witness ==
  /\ IsStory /\ Len(ItemKids(entry.storyID)) = 21
  /\ mainPc = "done"
  /\ reqCount[22] = 1 /\ reqCount[23] = 0
  /\ 22 \in NodeIds(result)
  /\ ValidContent(23)
  /\ reqCount[34] = 1 /\ reqCount[35] = 0

\* C7: when a getCommentsParallel call has returned, every goroutine it
\* spawned is finished, every nested call of those goroutines has returned,
\* its channel is closed and empty; when the top-level call has returned no
\* goroutine is left anywhere.
C7_JoinAll ==
  /\ \A c \in CallIds :
       callState[c] = "returned" =>
         /\ \A t \in Elems(callIds[c]) :
              pc[t] = "done" /\ callState[t] \in {"none", "returned"}
         /\ wg[c] = 0
         /\ closed[c] > 0
         /\ chan[c] = <<>>
  /\ mainPc = "done" => \A t \in CommentIds : pc[t] \in {"none", "done"}

\* the top-level call returned after a nested call was made and returned
C7_Witness ==
  /\ mainPc = "done"
  /\ callState[Root] = "returned"
  /\ callState[1] = "returned"
  /\ \A t \in Elems(callIds[1]) : pc[t] = "done"

\* the cap per level and the number of levels of the call under study: 20
\* for the kids of a story; a direct caller hands over at most 5 ids, the
\* nested cap (as the caller that cuts story.Kids to 5 before the call)
LevelCap == IF IsStory THEN 20 ELSE 5

Levels == IF entry.depth > 0 THEN entry.depth ELSE 0

\* 1 + 5 + ... + 5^(d-1)
RECURSIVE NodesPerTop(_)
NodesPerTop(d) == IF d <= 0 THEN 0 ELSE 1 + 5 * NodesPerTop(d - 1)

TopFanOut == IF IsStory THEN 20 ELSE Len(entry.ids)

\* C8 as stated: the fetch tasks in flight never exceed the fan-out cap per
\* level times the number of levels.
C8_Original == entry.depth >= 1 => InFlight <= LevelCap * Levels

\* C8 amended: the nested cap applies to every resolved node separately, so
\* the tasks in flight are bounded by the top-level fan-out times
\* 1 + 5 + ... + 5^(depth-1): 20 + 20 * 5 = 120 for GetStoryWithComments
\* (with depth <= 0 the top-level goroutines are spawned all the same).
C8_InFlightBound ==
  /\ InFlight <= TopFanOut * NodesPerTop(IF Levels = 0 THEN 1 ELSE Levels)
  /\ \A c \in CallIds :
       Cardinality({t \in Elems(callIds[c]) : pc[t] \in {"ready", "wait", "resolved"}})
         <= (IF c = Root THEN TopFanOut ELSE 5)

\* three ids at depth 2: both 1 and 2 wait for their five kids
C8_Witness ==
  /\ IsDirect /\ entry.depth = 2 /\ Len(entry.ids) <= 5
  /\ InFlight > LevelCap * Levels

\* the depth of a forest of nodes
RECURSIVE ForestDepth(_)
ForestDepth(s) ==
  IF s = <<>> THEN 0
  ELSE LET ds == {ForestDepth(s[i].Children) : i \in 1..Len(s)}
       IN 1 + CHOOSE d \in ds : \A e \in ds : e <= d

\* C9: a nested call gets the depth of its caller minus 1, every request is
\* issued by a getComment whose remaining depth is at least 1, and the
\* forest returned by GetStoryWithComments has at most 2 levels.
C9_DepthBudget ==
  /\ \A t \in CommentIds :
       callState[t] # "none" => callDepth[t] = callDepth[owner[t]] - 1
  /\ \A t \in CommentIds :
       reqCount[t] > 0 => reqDepth[t] >= 1 /\ reqDepth[t] = callDepth[owner[t]]
  /\ IsStory /\ callState[Root] # "none" => callDepth[Root] = 2
  /\ IsStory => ForestDepth(result) <= 2
  /\ IsDirect => ForestDepth(result) <= Levels

\* the story came back with two levels of comments, and item 50, a kid of
\* the second-level comment 30, was never requested
C9_Witness ==
  /\ IsStory /\ mainPc = "done"
  /\ ForestDepth(result) = 2
  /\ \E i \in 1..Len(result) : 30 \in NodeIds(result[i].Children)
  /\ reqCount[50] = 0

\* C10: a call with a negative depth does not return normally: the caller
\* observes an error or an abort.
C10_NegativeDepthFails ==
  (IsDirect /\ entry.depth < 0 /\ mainPc = "done") => (mainErr = TRUE \/ panicked)

\* the node of id in the sequence s
NodeOf(s, id) == s[CHOOSE i \in 1..Len(s) : s[i].ID = id]

\* the forest s with the siblings of every level put in the order of their
\* source id list src
RECURSIVE InSourceOrder(_, _)
InSourceOrder(s, src) ==
  IF src = <<>> THEN <<>>
  ELSE (IF Head(src) \in NodeIds(s)
          THEN LET n == NodeOf(s, Head(src))
               IN <<[n EXCEPT !.Children = InSourceOrder(n.Children, ItemKids(n.ID))]>>
          ELSE <<>>)
       \o InSourceOrder(s, Tail(src))

\* story 100 answered with both of its renderable comments and with both
\* renderable replies of comment 1
BothResolved ==
  /\ IsStory /\ entry.storyID = 100 /\ content # <<>>
  /\ NodeIds(result) = {1, 22}
  /\ NodeIds(NodeOf(result, 1).Children) = {30, 34}

\* C12: for a fixed store content and a fixed set of failures the text built
\* by GetStoryContent does not depend on the completion order of the sibling
\* fetches: it is the text of the resolved forest taken in source id order.
C12_SameTextForEveryOrder ==
  (IsStory /\ content # <<>>) =>
     content = HeaderPieces(entry.storyID)
                 \o CommentSection(mainErr, InSourceOrder(result, ItemKids(entry.storyID)))

\* the same answers of the store, rendered in source order ...
C12_TextInSourceOrder ==
  /\ BothResolved
  /\ result[1].ID = 1
  /\ result[1].Children[1].ID = 30

\* ... and rendered with the later comment and the later reply first
C12_TextInOtherOrder ==
  /\ BothResolved
  /\ result[1].ID = 22
  /\ result[2].Children[1].ID = 34

\* C13: no retry.  Within one call every dispatched id is requested from the
\* item store at most once, and an id whose request failed is never
\* requested again.
C13_NoRetry ==
  /\ [](\A t \in CommentIds : reqCount[t] <= 1)
  /\ [][\A t \in CommentIds :
          resp[t] = "failed" => (reqCount'[t] = reqCount[t] /\ resp'[t] = "failed")]_vars

\* a request that failed, in a call that went on to its return
C13_Witness ==
  /\ mainPc = "done"
  /\ \E t \in CommentIds : resp[t] = "failed" /\ reqCount[t] = 1 /\ pc[t] = "done"

\* C14: no mutable state is shared between concurrent branches.  A step
\* writes at most one node, and it is a step of the goroutine resolving that
\* node (its request, or the return of its own nested call); a result reaches
\* the parent only through the channel of the call; the slice of a call
\* grows only by the call taking the head of its own channel.
C14_NoSharedWrites ==
  [][/\ node' # node =>
          \E t \in CommentIds :
            /\ node' = [node EXCEPT ![t] = node'[t]]
            /\ \/ pc[t] = "ready" /\ pc'[t] \in {"wait", "resolved"}
               \/ /\ pc[t] = "wait" /\ pc'[t] = "resolved"
                  /\ callState[t] = "active" /\ callState'[t] = "returned"
                  /\ node'[t] = [node[t] EXCEPT !.Children = comments[t]]
     /\ comments' # comments =>
          \E c \in CallIds :
            /\ callState[c] = "active"
            /\ Len(chan[c]) > 0
            /\ comments' = [comments EXCEPT ![c] = Append(comments[c], Head(chan[c]))]
            /\ chan' = [chan EXCEPT ![c] = Tail(chan[c])]
     /\ (chan' # chan /\ comments' = comments) =>
          \E t \in CommentIds :
            /\ pc[t] = "resolved" /\ pc'[t] = "done"
            /\ chan' = [chan EXCEPT ![owner[t]] = Append(chan[owner[t]], node[t])]
            /\ node' = node
     /\ result' # result => result' = comments[Root]
    ]_vars

\* two results collected by a call while a sibling still holds its node
C14_Witness ==
  \E c \in CallIds :
    /\ Len(comments[c]) >= 2
    /\ \E t \in CommentIds : owner[t] = c /\ pc[t] = "resolved"

\* the kinds of the pieces in a text
PieceKinds(c) == {c[i].k : i \in 1..Len(c)}

\* C23: GetStoryContent never returns an error.  When the fetch of the
\* story fails it still returns nil and a non-empty text with the title,
\* the links, the score line and the story's own text, only without the
\* comment section.
C23_ContentNeverFails ==
  /\ ~contentErr
  /\ (IsStory /\ mainPc = "done" /\ content # <<>>) =>
       /\ {"title", "url", "hnurl", "score"} \subseteq PieceKinds(content)
       /\ StoryHasText(entry.storyID) => "text" \in PieceKinds(content)
       /\ mainErr => PieceKinds(content) \cap {"hot", "comment", "reply"} = {}

\* the text of a story with a text of its own, built after the fetch of the
\* story failed
C23_Witness ==
  /\ IsStory /\ entry.storyID = 100
  /\ mainErr
  /\ content # <<>>

(***************************************************************************)
(* The earlier, sequential fetcher: getComment with its loop over the kids *)
(* and the loop of GetStoryWithComments, as functions of the answers of    *)
(* the store.  rs[id] is the answer to the request for id.                 *)
(***************************************************************************)
seqMaxChildren == 5

RECURSIVE SequentialComment(_, _, _)
RECURSIVE SequentialComments(_, _, _)
\* <<>> for a nil comment or an error, the comment in a sequence else
SequentialComment(id, maxDepth, rs) ==
  IF maxDepth <= 0 THEN <<>>
  ELSE IF rs[id] # "ok" THEN <<>>
  ELSE IF Comment(id).Text = "" \/ Comment(id).Type # "comment" THEN <<>>
  ELSE IF Len(Comment(id).Kids) > 0 /\ maxDepth > 1
         THEN LET kids == IF Len(Comment(id).Kids) > seqMaxChildren
                            THEN SubSeq(Comment(id).Kids, 1, seqMaxChildren)
                            ELSE Comment(id).Kids
              IN <<[Comment(id) EXCEPT !.Kids = kids,
                                       !.Children = SequentialComments(kids, maxDepth - 1, rs)]>>
         ELSE <<Comment(id)>>

\* for _, kidID := range ids: append the non-nil, error-free results
SequentialComments(ids, maxDepth, rs) ==
  IF ids = <<>> THEN <<>>
  ELSE SequentialComment(Head(ids), maxDepth, rs)
       \o SequentialComments(Tail(ids), maxDepth, rs)

\* the number of nodes of a forest
RECURSIVE ForestSize(_)
ForestSize(s) ==
  IF s = <<>> THEN 0 ELSE 1 + ForestSize(Head(s).Children) + ForestSize(Tail(s))

\* the forests hold the same nodes with the same children, whatever the
\* order of the siblings
SameForest(par, ids, sequential) ==
  /\ ForestSize(par) = ForestSize(sequential)
  /\ InSourceOrder(par, ids) = sequential

\* C24: for the same answers of the store getCommentsParallel(ids, d)
\* returns the same comments, each with the same children, as the loop
\* that calls getComment(id, d) for each id in order and keeps the non-nil,
\* error-free results.
C24_ParallelIsSequential ==
  (mainPc = "done" /\ ~panicked /\ ~mainErr) =>
     IF IsDirect
       THEN SameForest(result, entry.ids,
                       SequentialComments(entry.ids, entry.depth, resp))
       ELSE SameForest(result, storyKids, SequentialComments(storyKids, 2, resp))

\* a call that returned two comments, one of them with children, and lost
\* a third one to a failed request
C24_Witness ==
  /\ IsDirect /\ mainPc = "done"
  /\ failures >= 1
  /\ Len(result) >= 2
  /\ \E i \in 1..Len(result) : Len(result[i].Children) >= 2

(***************************************************************************)
(* The message splitter of the telegram bot.  A string is the sequence of  *)
(* its characters: a letter is a positive number (its position in the      *)
(* text, so that every piece of a text is recognisable), NL the newline    *)
(* and Stop the ideographic full stop, which takes three bytes.  len() and *)
(* strings.Builder.Len() count bytes.                                      *)
(***************************************************************************)
MaxTextLen == 7
MaxChunkLen == 6

NL == 0
Stop == 0 - 1
StopBytes == 3

ParagraphSep == <<NL, NL>>
SentenceEnd == <<Stop>>

\* len(s)
Bytes(s) == Len(s) + (StopBytes - 1) * Cardinality({i \in 1..Len(s) : s[i] = Stop})

Least(S) == CHOOSE x \in S : \A y \in S : x <= y

\* strings.Split(s, sep) for a non-empty sep: cut at the leftmost
\* occurrences that do not overlap
RECURSIVE Split(_, _)
Split(s, sep) ==
  LET n == Len(sep)
      hits == {i \in 1..(Len(s) - n + 1) : SubSeq(s, i, i + n - 1) = sep}
  IN IF hits = {} THEN <<s>>
     ELSE <<SubSeq(s, 1, Least(hits) - 1)>>
          \o Split(SubSeq(s, Least(hits) + n, Len(s)), sep)

\* the texts of a given shape
Kinds == {"letter", "newline", "stop"}

TextOf(shape) ==
  [i \in 1..Len(shape) |->
     CASE shape[i] = "letter" -> i
       [] shape[i] = "newline" -> NL
       [] shape[i] = "stop" -> Stop]

Texts == UNION {{TextOf(sh) : sh \in [1..n -> Kinds]} : n \in 0..MaxTextLen}

\* the limits handed over, the non-positive ones included
Lengths == (0 - 1)..MaxChunkLen

Letters(n) == [i \in 1..n |-> "letter"]

\* "A\n\nB\n\nC" with limit 3, "AAAA\n\nB" with limit 4, and one paragraph of
\* 50 letters with limit 20
ScenarioA ==
  [text |-> TextOf(<<"letter", "newline", "newline", "letter", "newline", "newline",
                     "letter">>),
   maxLength |-> 3]

ScenarioB ==
  [text |-> TextOf(Letters(4) \o <<"newline", "newline", "letter">>), maxLength |-> 4]

ScenarioD == [text |-> TextOf(Letters(50)), maxLength |-> 20]

ChunkInputs ==
  {[text |-> t, maxLength |-> m] : t \in Texts, m \in Lengths}
  \cup {ScenarioA, ScenarioB, ScenarioD}

\* the conditions of sendLongMessage and sendVeryLongParagraph
FitsWhole(text, maxLength) == Bytes(text) <= maxLength

Oversized(paragraph, maxLength) == Bytes(paragraph) > maxLength

ParagraphOverflowNoSeparator(cur, paragraph, maxLength) ==
  Bytes(cur) + Bytes(paragraph) > maxLength

ParagraphOverflow(cur, paragraph, maxLength) ==
  Bytes(cur) + Bytes(paragraph) + 2 > maxLength

SentenceOverflowNever(cur, sentence, maxLength) == FALSE

SentenceOverflow(cur, sentence, maxLength) ==
  Bytes(cur) + Bytes(sentence) > maxLength

PendingBeforeFallbackNever(cur) == FALSE

\* currentMessage.Len() > 0 where the pending paragraphs give way to an
\* oversized paragraph
PendingBeforeFallback(cur) == Bytes(cur) > 0

LeftOverNever(cur) == FALSE

\* currentMessage.Len() > 0 after the last paragraph
LeftOver(cur) == Bytes(cur) > 0

\* a text handed to sendMessage: para is the index of the oversized
\* paragraph it is a part of, 0 for whole paragraphs and for the whole text
Chunk(msg, para) == [msg |-> msg, para |-> para]

\* what sendMessage can answer: TRUE for a nil error
SendResults(sending) == IF sending THEN BOOLEAN ELSE {TRUE}

\* sendLongMessage up to its loop
sendLongMessage ==
  /\ cPc = "start"
  /\ IF FitsWhole(cIn.text, cIn.maxLength)
       THEN /\ \E ok \in SendResults(TRUE) : cErr' = ~ok
            /\ sent' = Append(sent, Chunk(cIn.text, 0))
            /\ cPc' = "done"
            /\ UNCHANGED <<paragraphs, pIdx>>
       ELSE /\ paragraphs' = Split(cIn.text, ParagraphSep)
            /\ pIdx' = 1
            /\ cPc' = "para"
            /\ UNCHANGED <<sent, cErr>>
  /\ UNCHANGED <<cIn, currentMessage, sentences, sIdx, sentenceMessage, fetchVars, sendVars, botVars, logVars, cfgVars>>

\* one iteration of the loop over the paragraphs; for an oversized
\* paragraph, up to the loop of sendVeryLongParagraph
ParagraphStep ==
  /\ cPc = "para"
  /\ pIdx <= Len(paragraphs)
  /\ LET paragraph == paragraphs[pIdx]
         maxLength == cIn.maxLength
     IN IF Oversized(paragraph, maxLength)
          THEN LET flush == PendingBeforeFallback(currentMessage)
               IN \E ok \in SendResults(flush) :
                    /\ sent' = IF flush THEN Append(sent, Chunk(currentMessage, 0)) ELSE sent
                    /\ IF ok
                         THEN /\ currentMessage' = IF flush THEN <<>> ELSE currentMessage
                              /\ sentences' = Split(paragraph, SentenceEnd)
                              /\ sIdx' = 1
                              /\ sentenceMessage' = <<>>
                              /\ cPc' = "sentence"
                              /\ UNCHANGED <<pIdx, cErr>>
                         ELSE /\ cErr' = TRUE
                              /\ cPc' = "done"
                              /\ UNCHANGED <<currentMessage, sentences, sIdx,
                                             sentenceMessage, pIdx>>
          ELSE LET flush == /\ ParagraphOverflow(currentMessage, paragraph, maxLength)
                            /\ Bytes(currentMessage) > 0
               IN \E ok \in SendResults(flush) :
                    /\ sent' = IF flush THEN Append(sent, Chunk(currentMessage, 0)) ELSE sent
                    /\ IF ok
                         THEN LET cur == IF flush THEN <<>> ELSE currentMessage
                              IN /\ currentMessage' =
                                      (IF Bytes(cur) > 0 THEN cur \o ParagraphSep ELSE cur)
                                      \o paragraph
                                 /\ pIdx' = pIdx + 1
                                 /\ UNCHANGED <<cPc, cErr>>
                         ELSE /\ cErr' = TRUE
                              /\ cPc' = "done"
                              /\ UNCHANGED <<currentMessage, pIdx>>
                    /\ UNCHANGED <<sentences, sIdx, sentenceMessage>>
  /\ UNCHANGED <<cIn, paragraphs, fetchVars, sendVars, botVars, logVars, cfgVars>>

\* a final flush that may leave the pending buffer unsent
ParagraphFlushOrDrop ==
  /\ cPc = "para"
  /\ pIdx > Len(paragraphs)
  /\ \E drop \in BOOLEAN :
       LET flush == LeftOver(currentMessage) /\ ~drop
       IN /\ \E ok \in SendResults(flush) : cErr' = ~ok
          /\ sent' = IF flush THEN Append(sent, Chunk(currentMessage, 0)) ELSE sent
  /\ cPc' = "done"
  /\ UNCHANGED <<cIn, paragraphs, pIdx, currentMessage, sentences, sIdx,
                 sentenceMessage, fetchVars, sendVars, botVars, logVars, cfgVars>>

\* sendLongMessage after its loop
ParagraphFlush ==
  /\ cPc = "para"
  /\ pIdx > Len(paragraphs)
  /\ LET flush == LeftOver(currentMessage)
     IN /\ \E ok \in SendResults(flush) : cErr' = ~ok
        /\ sent' = IF flush THEN Append(sent, Chunk(currentMessage, 0)) ELSE sent
  /\ cPc' = "done"
  /\ UNCHANGED <<cIn, paragraphs, pIdx, currentMessage, sentences, sIdx,
                 sentenceMessage, fetchVars, sendVars, botVars, logVars, cfgVars>>

SentenceStepKeepsGoing ==
  /\ cPc = "sentence"
  /\ sIdx <= Len(sentences)
  /\ LET sentence == IF sIdx < Len(sentences)
                       THEN sentences[sIdx] \o SentenceEnd
                       ELSE sentences[sIdx]
         flush == /\ SentenceOverflow(sentenceMessage, sentence, cIn.maxLength)
                  /\ Bytes(sentenceMessage) > 0
     IN \E ok \in SendResults(flush) :
          /\ sent' = IF flush THEN Append(sent, Chunk(sentenceMessage, pIdx)) ELSE sent
          /\ sentenceMessage' = (IF flush THEN <<>> ELSE sentenceMessage) \o sentence
          /\ sIdx' = sIdx + 1
          /\ cErr' = (cErr \/ ~ok)
          /\ UNCHANGED cPc
  /\ UNCHANGED <<cIn, paragraphs, pIdx, currentMessage, sentences, fetchVars, sendVars, botVars, logVars, cfgVars>>

\* one iteration of the loop over the sentences
SentenceStep ==
  /\ cPc = "sentence"
  /\ sIdx <= Len(sentences)
  /\ LET sentence == IF sIdx < Len(sentences)
                       THEN sentences[sIdx] \o SentenceEnd
                       ELSE sentences[sIdx]
         flush == /\ SentenceOverflow(sentenceMessage, sentence, cIn.maxLength)
                  /\ Bytes(sentenceMessage) > 0
     IN \E ok \in SendResults(flush) :
          /\ sent' = IF flush THEN Append(sent, Chunk(sentenceMessage, pIdx)) ELSE sent
          /\ IF ok
               THEN /\ sentenceMessage' =
                         (IF flush THEN <<>> ELSE sentenceMessage) \o sentence
                    /\ sIdx' = sIdx + 1
                    /\ UNCHANGED <<cPc, cErr>>
               ELSE /\ cErr' = TRUE
                    /\ cPc' = "done"
                    /\ UNCHANGED <<sentenceMessage, sIdx>>
  /\ UNCHANGED <<cIn, paragraphs, pIdx, currentMessage, sentences, fetchVars, sendVars, botVars, logVars, cfgVars>>

\* sendVeryLongParagraph after its loop, and the return to the loop over
\* the paragraphs
SentenceFlush ==
  /\ cPc = "sentence"
  /\ sIdx > Len(sentences)
  /\ LET flush == Bytes(sentenceMessage) > 0
     IN \E ok \in SendResults(flush) :
          /\ sent' = IF flush THEN Append(sent, Chunk(sentenceMessage, pIdx)) ELSE sent
          /\ IF ok
               THEN /\ pIdx' = pIdx + 1
                    /\ cPc' = "para"
                    /\ sentences' = <<>>
                    /\ sIdx' = 0
                    /\ sentenceMessage' = <<>>
                    /\ UNCHANGED cErr
               ELSE /\ cErr' = TRUE
                    /\ cPc' = "done"
                    /\ UNCHANGED <<pIdx, sentences, sIdx, sentenceMessage>>
  /\ UNCHANGED <<cIn, paragraphs, currentMessage, fetchVars, sendVars, botVars, logVars, cfgVars>>

InitChunk ==
  /\ ConfigIdle
  /\ FetchIdle
  /\ SendIdle
  /\ BotFresh
  /\ LogIdle
  /\ cIn \in ChunkInputs
  /\ cPc = "start"
  /\ paragraphs = <<>>
  /\ pIdx = 0
  /\ currentMessage = <<>>
  /\ sentences = <<>>
  /\ sIdx = 0
  /\ sentenceMessage = <<>>
  /\ sent = <<>>
  /\ cErr = FALSE

NextChunk ==
  \/ sendLongMessage
  \/ ParagraphStep
  \/ ParagraphFlush
  \/ SentenceStep
  \/ SentenceFlush

SpecChunk == InitChunk /\ [][NextChunk]_vars

(***************************************************************************)
(* Vocabulary of the properties of the splitter                            *)
(***************************************************************************)
RECURSIVE Concat(_)
Concat(ss) == IF ss = <<>> THEN <<>> ELSE Head(ss) \o Concat(Tail(ss))

IsPrefix(a, b) == Len(a) <= Len(b) /\ SubSeq(b, 1, Len(a)) = a

\* the texts handed to sendMessage
Msgs == [i \in 1..Len(sent) |-> sent[i].msg]

\* a string without its paragraph separators
Flatten(s) == Concat(Split(s, ParagraphSep))

\* everything sent so far, without the paragraph separators
SentFlat == Concat([i \in 1..Len(sent) |-> Flatten(sent[i].msg)])

\* the sentences of a paragraph, each with its terminator
SentencesOf(p) ==
  LET ss == Split(p, SentenceEnd)
  IN [j \in 1..Len(ss) |-> IF j < Len(ss) THEN ss[j] \o SentenceEnd ELSE ss[j]]

Finished == cPc = "done" /\ ~cErr

\* the paragraphs of the text
Paras == Split(cIn.text, ParagraphSep)

\* the paragraph is one that the splitter has to take apart
TakenApart(p) == Bytes(cIn.text) > cIn.maxLength /\ Bytes(p) > cIn.maxLength

\* no paragraph separator inside, no terminator but at the end
IsOneSentence(m) ==
  /\ Len(Split(m, ParagraphSep)) = 1
  /\ \A i \in 1..(Len(m) - 1) : m[i] # Stop

\* C11: a non-positive maxLen is a contract violation that fails fast: an
\* error is returned and no chunk is sent.
C11_NonPositiveFailsFast ==
  (cPc = "done" /\ cIn.maxLength <= 0) => (cErr /\ sent = <<>>)

\* C15: for every maxLen >= 1 each chunk handed to sendMessage has length
\* <= maxLen unless it is exactly one sentence longer than maxLen; no chunk
\* of two or more paragraphs or sentences exceeds maxLen.
C15_ChunkLengthBound ==
  cIn.maxLength >= 1 =>
    \A i \in 1..Len(sent) :
      Bytes(sent[i].msg) <= cIn.maxLength \/ IsOneSentence(sent[i].msg)

\* a sentence sent over the limit next to a chunk within it
C15_Witness ==
  /\ Finished /\ cIn.maxLength >= 1
  /\ \E i, j \in 1..Len(sent) :
       /\ Bytes(sent[i].msg) > cIn.maxLength
       /\ Bytes(sent[j].msg) <= cIn.maxLength
       /\ sent[j].para = 0

\* the separator the splitter dropped between two chunks that follow each
\* other: none inside an oversized paragraph, the paragraph separator else
SepBetween(a, b) == IF a.para > 0 /\ a.para = b.para THEN <<>> ELSE ParagraphSep

RECURSIVE JoinFrom(_, _)
JoinFrom(cs, i) ==
  IF i > Len(cs) THEN <<>>
  ELSE (IF i > 1 THEN SepBetween(cs[i - 1], cs[i]) ELSE <<>>) \o cs[i].msg
       \o JoinFrom(cs, i + 1)

Join(cs) == JoinFrom(cs, 1)

\* C16: round trip.  For maxLen >= 1 joining the chunks in order with the
\* splitter's own separators reproduces the text exactly, empty paragraphs
\* included.
C16_RoundTrip ==
  (Finished /\ cIn.maxLength >= 1) => Join(sent) = cIn.text

\* the round trip of the texts without an empty paragraph
C16_RoundTripNoEmptyParagraph ==
  (Finished /\ cIn.maxLength >= 1 /\ \A k \in 1..Len(Paras) : Paras[k] # <<>>)
    => Join(sent) = cIn.text

\* C17: greedy paragraph packing.  A paragraph that fits is appended to the
\* buffer, after the 2-character separator when the buffer is non-empty, if
\* and only if bufferLength + 2 + paragraphLength <= maxLen; otherwise the
\* non-empty buffer is flushed as a chunk and the paragraph starts a new
\* buffer.  "A\n\nB\n\nC" with limit 3 gives A, B, C and "AAAA\n\nB" with
\* limit 4 gives AAAA, B.
C17_GreedyPacking ==
  /\ []((cIn = ScenarioA /\ Finished) => Msgs = << <<1>>, <<4>>, <<7>> >>)
  /\ []((cIn = ScenarioB /\ Finished) => Msgs = << <<1, 2, 3, 4>>, <<7>> >>)
  /\ [][(/\ cPc = "para" /\ pIdx <= Len(paragraphs)
         /\ Bytes(paragraphs[pIdx]) <= cIn.maxLength
         /\ ~cErr')
        => LET p == paragraphs[pIdx]
               b == currentMessage
           IN IF b # <<>> /\ Bytes(b) + 2 + Bytes(p) <= cIn.maxLength
                THEN currentMessage' = b \o <<NL, NL>> \o p /\ sent' = sent
                ELSE IF b # <<>>
                       THEN sent' = Append(sent, Chunk(b, 0)) /\ currentMessage' = p
                       ELSE currentMessage' = p /\ sent' = sent]_vars

\* a chunk of two paragraphs, flushed when the next one did not fit
C17_Witness ==
  /\ Finished /\ cIn.maxLength >= 1
  /\ Len(sent) >= 2
  /\ \A i \in 1..Len(sent) : sent[i].para = 0
  /\ Len(Split(sent[1].msg, ParagraphSep)) >= 2

\* C18: the fallback keeps the source order.  The pending buffer is sent
\* before any chunk of an oversized paragraph, its sentences are sent next,
\* later paragraphs after them: what has been sent is at every moment the
\* beginning of the text.
C18_FallbackKeepsOrder ==
  /\ cPc = "sentence" => currentMessage = <<>>
  /\ IsPrefix(SentFlat, Flatten(cIn.text))
  /\ \A i, j \in 1..Len(sent) :
       (i < j /\ sent[i].para > 0 /\ sent[j].para > 0) => sent[i].para <= sent[j].para

\* a flushed buffer, then a chunk of an oversized paragraph, then a later
\* paragraph
C18_Witness ==
  /\ Finished /\ cIn.maxLength >= 1
  /\ \E i, j, k \in 1..Len(sent) :
       /\ i < j /\ j < k
       /\ sent[i].para = 0 /\ sent[i].msg # <<>>
       /\ sent[j].para > 0
       /\ sent[k].para = 0 /\ sent[k].msg # <<>>

\* C19: a sentence longer than maxLen is emitted verbatim as a chunk of its
\* own, never merged and never split; one paragraph of 50 characters
\* without terminator and maxLen 20 gives one chunk of length 50.
C19_OversizedSentenceVerbatim ==
  /\ (cIn = ScenarioD /\ Finished) =>
       (Len(sent) = 1 /\ Bytes(sent[1].msg) = 50 /\ sent[1].msg = cIn.text)
  /\ (Finished /\ cIn.maxLength >= 1) =>
       \A k \in 1..Len(Paras) :
         TakenApart(Paras[k]) =>
           \A j \in 1..Len(SentencesOf(Paras[k])) :
             Bytes(SentencesOf(Paras[k])[j]) > cIn.maxLength =>
               \E i \in 1..Len(sent) :
                 sent[i] = Chunk(SentencesOf(Paras[k])[j], k)

\* an oversized sentence sent between two chunks of the same paragraph
C19_Witness ==
  /\ Finished /\ cIn.maxLength >= 1
  /\ \E i \in 2..(Len(sent) - 1) :
       /\ Bytes(sent[i].msg) > cIn.maxLength
       /\ sent[i].para > 0
       /\ sent[i - 1].para = sent[i].para
       /\ sent[i + 1].para = sent[i].para

\* the units of the text: its paragraphs, and the sentences of those the
\* splitter takes apart
RECURSIVE UnitsFrom(_)
UnitsFrom(k) ==
  IF k > Len(Paras) THEN <<>>
  ELSE (IF TakenApart(Paras[k]) THEN SentencesOf(Paras[k]) ELSE <<Paras[k]>>)
       \o UnitsFrom(k + 1)

\* the offsets at which a sequence of strings is cut
Cuts(ss) == {Len(Concat(SubSeq(ss, 1, n))) : n \in 0..Len(ss)}

\* C20: final flush.  If every send succeeds, then at the return the buffer
\* pending at the end of input has been sent as the last chunk, and every
\* paragraph, and every sentence of an oversized paragraph, has been sent
\* in exactly one chunk.
C20_FinalFlush ==
  Finished =>
    /\ SentFlat = Flatten(cIn.text)
    /\ Cuts([i \in 1..Len(sent) |-> Flatten(sent[i].msg)]) \subseteq Cuts(UnitsFrom(1))

\* the last chunk is a buffer of two paragraphs sent by the final flush
C20_Witness ==
  /\ Finished /\ cIn.maxLength >= 1
  /\ Len(sent) >= 2
  /\ sent[Len(sent)].para = 0
  /\ Len(Split(sent[Len(sent)].msg, ParagraphSep)) >= 2

(***************************************************************************)
(* sendLongMessage as a function: the texts it hands to sendMessage when   *)
(* every send succeeds, computed from the text and the limit alone.        *)
(***************************************************************************)
\* the builder as a message, nothing when it is empty
Pending(buf) == IF Bytes(buf) > 0 THEN <<buf>> ELSE <<>>

\* the loop of sendVeryLongParagraph from sentence i on, buf in the builder
RECURSIVE SentenceChunks(_, _, _, _)
SentenceChunks(ss, i, buf, maxLength) ==
  IF i > Len(ss) THEN Pending(buf)
  ELSE LET sentence == IF i < Len(ss) THEN ss[i] \o SentenceEnd ELSE ss[i]
       IN IF Bytes(buf) + Bytes(sentence) > maxLength /\ Bytes(buf) > 0
            THEN <<buf>> \o SentenceChunks(ss, i + 1, sentence, maxLength)
            ELSE SentenceChunks(ss, i + 1, buf \o sentence, maxLength)

\* the loop of sendLongMessage from paragraph k on, buf in the builder
RECURSIVE ParagraphChunks(_, _, _, _)
ParagraphChunks(ps, k, buf, maxLength) ==
  IF k > Len(ps) THEN Pending(buf)
  ELSE IF Bytes(ps[k]) > maxLength
         THEN Pending(buf)
              \o SentenceChunks(Split(ps[k], SentenceEnd), 1, <<>>, maxLength)
              \o ParagraphChunks(ps, k + 1, <<>>, maxLength)
         ELSE IF Bytes(buf) + Bytes(ps[k]) + 2 > maxLength /\ Bytes(buf) > 0
                THEN <<buf>> \o ParagraphChunks(ps, k + 1, ps[k], maxLength)
                ELSE ParagraphChunks(ps, k + 1,
                                     (IF Bytes(buf) > 0 THEN buf \o ParagraphSep ELSE buf)
                                       \o ps[k],
                                     maxLength)

SplitChunks(text, maxLength) ==
  IF Bytes(text) <= maxLength THEN <<text>>
  ELSE ParagraphChunks(Split(text, ParagraphSep), 1, <<>>, maxLength)

\* C22: the chunks are a function of the text and the limit alone: every
\* run on the same two inputs hands the same texts to sendMessage in the
\* same order, up to the first send that fails, and all of them when every
\* send succeeds.
C22_SplitIsAFunction ==
  /\ IsPrefix(Msgs, SplitChunks(cIn.text, cIn.maxLength))
  /\ Finished => Msgs = SplitChunks(cIn.text, cIn.maxLength)

\* a run that sent four chunks or more
C22_Witness ==
  /\ Finished /\ cIn.maxLength >= 1
  /\ Len(sent) >= 4
  /\ \E i \in 1..Len(sent) : sent[i].para > 0

(***************************************************************************)
(* SendDailySummary, SendDailySummaryWithNumbers and SendDetailedSummary:  *)
(* one call, with texts of the sizes the limit of 4000 is about.  The      *)
(* title is the byte length of its format plus its argument; the texts     *)
(* are handed to sendMessage through sent, and the long ones to            *)
(* sendLongMessage through cIn.                                            *)
(***************************************************************************)
maxMessageLength == 4000
titleMargin == 20
TelegramCeiling == 4096

\* the sizes tried on either side of a threshold
MaxSlack == 1
Slack == (0 - MaxSlack)..MaxSlack

\* the byte lengths of the three title formats without their argument, of
\* a date, and of "[%d] " for a number of one digit
DailyTitleBytes == 35
NumbersTitleHeadBytes == 35
NumbersTitleTailBytes == 60
DetailedTitleBytes == 31
DateBytes == 10
NumberTagBytes == 4

\* a story title as the store gives it: short, or longer than a message
StoryTitleBytes == {40, TelegramCeiling}

Blank == <<"newline", "newline">>

\* a message that is no chunk of sendLongMessage
Framed(msg) == [msg |-> msg, para |-> 0 - 1]

\* the titles
DailyTitle == TextOf(Letters(DailyTitleBytes + DateBytes))

NumbersTitle ==
  TextOf(Letters(NumbersTitleHeadBytes + DateBytes) \o Blank
         \o Letters(NumbersTitleTailBytes))

DetailedTitle(titleBytes) == TextOf(Letters(DetailedTitleBytes + titleBytes))

\* the lengths around the thresholds of a call whose title has t bytes
BodyLens(t) ==
  {n \in {maxMessageLength - t - titleMargin + d : d \in Slack}
          \cup {maxMessageLength + d : d \in Slack}
          \cup {TelegramCeiling + d : d \in Slack} : n >= 0}

\* the shapes of a summary: one run of letters, two paragraphs, three
\* sentences, and a paragraph before an oversized sentence
BodyShapes(t) ==
  {Letters(n) : n \in BodyLens(t)}
  \cup {Letters(2000) \o Blank \o Letters(1998 + d) : d \in Slack}
  \cup {Letters(1500) \o <<"stop">> \o Letters(1500) \o <<"stop">> \o Letters(994 + d) :
          d \in Slack}
  \cup {Letters(100) \o Blank \o Letters(TelegramCeiling + d) : d \in Slack}

Bodies(t) == {TextOf(sh) : sh \in BodyShapes(t)}

\* summaries with numbers: the lengths of the summaries of their stories
SummaryLens ==
  {<<n>> : n \in {maxMessageLength - Bytes(NumbersTitle) - titleMargin - 6 + d : d \in Slack}}
  \cup {<<2000, 1988 + d>> : d \in Slack}
  \cup {<<TelegramCeiling + d>> : d \in Slack}
  \cup {<<>>}

WithNumbers(date, lens, titleBytes) ==
  [Date |-> date,
   StorySummaries |-> [i \in 1..Len(lens) |->
                         [Number |-> i, Title |-> titleBytes, Summary |-> lens[i]]]]

\* storiesBuilder: "[%d] %s\n\n" for every story
RECURSIVE StoriesShape(_)
StoriesShape(ss) ==
  IF ss = <<>> THEN <<>>
  ELSE Letters(NumberTagBytes) \o Letters(Head(ss).Summary) \o Blank
       \o StoriesShape(Tail(ss))

\* the calls
SendInputs ==
  {[kind |-> "daily", summary |-> b] : b \in Bodies(Bytes(DailyTitle))}
  \cup
  {[kind |-> "numbers", summary |-> WithNumbers(d, l, 40)] : d \in Dates, l \in SummaryLens}
  \cup
  {[kind |-> "detailed", storyNumber |-> n, date |-> d, stored |-> st, title |-> tb,
    detailedSummary |-> b] :
     n \in 1..2, d \in Dates, st \in {"2024-01-01"}, tb \in StoryTitleBytes,
     b \in Bodies(DetailedTitleBytes + 40)}

\* the common end of the three calls: one message if the text is short
\* enough, else the title and then sendLongMessage
SendTitled(title, sep, text) ==
  IF Bytes(text) <= maxMessageLength - Bytes(title) - titleMargin
    THEN /\ sent' = Append(sent, Framed(title \o sep \o text))
         /\ \E ok \in SendResults(TRUE) : sErr' = ~ok
         /\ sPc' = "done"
         /\ UNCHANGED <<cIn, cPc>>
    ELSE /\ sent' = Append(sent, Framed(title))
         /\ \E ok \in SendResults(TRUE) :
              IF ok
                THEN /\ cIn' = [text |-> text, maxLength |-> maxMessageLength]
                     /\ cPc' = "start"
                     /\ sPc' = "chunking"
                     /\ UNCHANGED sErr
                ELSE /\ sErr' = TRUE
                     /\ sPc' = "done"
                     /\ UNCHANGED <<cIn, cPc>>

SendDailySummary ==
  /\ sPc = "start"
  /\ sIn.kind = "daily"
  /\ SendTitled(DailyTitle, <<NL, NL>>, sIn.summary)
  /\ UNCHANGED <<sIn, storySummaries, handlerVars, paragraphs, pIdx, currentMessage, sentences, sIdx,
                 sentenceMessage, cErr, fetchVars, logVars, cfgVars>>

SendDailySummaryWithNumbers ==
  /\ sPc = "start"
  /\ sIn.kind = "numbers"
  /\ storySummaries' = [storySummaries EXCEPT ![sIn.summary.Date] = sIn.summary]
  /\ SendTitled(NumbersTitle, <<NL>>, TextOf(StoriesShape(sIn.summary.StorySummaries)))
  /\ UNCHANGED <<sIn, handlerVars, paragraphs, pIdx, currentMessage, sentences, sIdx,
                 sentenceMessage, cErr, fetchVars, logVars, cfgVars>>

\* the story with the number n of a summary, 0 if there is none
StoryIndex(summary, n) ==
  LET hits == {i \in 1..Len(summary.StorySummaries) : summary.StorySummaries[i].Number = n}
  IN IF hits = {} THEN 0 ELSE Least(hits)

\* GetStoryContent returns no error; GenerateDetailedSummary fails or
\* gives the text to send
SendDetailedSummary ==
  /\ sPc = "start"
  /\ sIn.kind = "detailed"
  /\ LET summary == storySummaries[sIn.date]
         i == StoryIndex(summary, sIn.storyNumber)
     IN IF summary = NoSummary \/ i = 0
          THEN /\ sErr' = TRUE
               /\ sPc' = "done"
               /\ UNCHANGED <<sent, cIn, cPc>>
          ELSE \E aiOk \in BOOLEAN :
                 IF aiOk
                   THEN SendTitled(DetailedTitle(summary.StorySummaries[i].Title),
                                   <<NL, NL>>, sIn.detailedSummary)
                   ELSE /\ sErr' = TRUE
                        /\ sPc' = "done"
                        /\ UNCHANGED <<sent, cIn, cPc>>
  /\ UNCHANGED <<sIn, storySummaries, handlerVars, paragraphs, pIdx, currentMessage, sentences, sIdx,
                 sentenceMessage, cErr, fetchVars, logVars, cfgVars>>

\* return b.sendLongMessage(...)
SummaryReturn ==
  /\ sPc = "chunking"
  /\ cPc = "done"
  /\ sErr' = cErr
  /\ sPc' = "done"
  /\ UNCHANGED <<sIn, chunkVars, botVars, fetchVars, logVars, cfgVars>>

InitSend ==
  /\ ConfigIdle
  /\ FetchIdle
  /\ ChunkIdle
  /\ LogIdle
  /\ HandlersIdle
  /\ sIn \in SendInputs
  /\ sPc = "start"
  /\ sErr = FALSE
  /\ storySummaries =
       [d \in Dates |->
          IF sIn.kind = "detailed" /\ d = sIn.stored
            THEN WithNumbers(d, <<100>>, sIn.title)
            ELSE NoSummary]

NextSend ==
  \/ SendDailySummary
  \/ SendDailySummaryWithNumbers
  \/ SendDetailedSummary
  \/ SummaryReturn
  \/ sendLongMessage
  \/ ParagraphStep
  \/ ParagraphFlush
  \/ SentenceStep
  \/ SentenceFlush

SpecSend == InitSend /\ [][NextSend]_vars

\* C21: every message that the three summary calls hand to sendMessage,
\* the single title+body message, the separate title and each chunk made
\* with the limit 4000, has at most 4096 bytes, except a chunk that is one
\* oversized sentence.
C21_MessageCeiling ==
  \A i \in 1..Len(sent) :
    \/ Bytes(sent[i].msg) <= 4096
    \/ sent[i].para > 0 /\ IsOneSentence(sent[i].msg)

\* the same for the calls whose title line is within the ceiling
C21_CeilingForShortTitles ==
  (sent # <<>> /\ sent[1].para < 0 /\ Bytes(sent[1].msg) <= 4096) => C21_MessageCeiling

(***************************************************************************)
(* The logger: NewLogger, the three Log functions, writeEntry, the         *)
(* goroutine asyncWriter and Close.  A text is the sequence of its bytes;  *)
(* an entry carries the number of its call as its Timestamp.               *)
(***************************************************************************)
MaxLogCalls == 2
MaxContentLen == 2
MaxBufferSize == 2

\* "...[truncated]"
Marker == <<".", ".", ".", "[", "t", "r", "u", "n", "c", "a", "t", "e", "d", "]">>

Chars == <<"1", "2", "3", "4", "5", "6", "7", "8">>

Content(n) == SubSeq(Chars, 1, n)

Contents == {Content(n) : n \in 0..MaxContentLen}

Configs ==
  [Enabled : BOOLEAN, AsyncWrite : BOOLEAN, BufferSize : 0..MaxBufferSize,
   MaxContentLength : 0..(MaxContentLen - 1)]

\* the calls of the Log functions: the number of stories and their
\* contents, a summary text, the text of a message
LogInputs ==
  {[fn |-> "LogStoryContents", stories |-> 1, storyContents |-> <<c>>] : c \in Contents}
  \cup {[fn |-> "LogStoryContents", stories |-> ns, storyContents |-> cs] :
          ns \in 1..2,
          cs \in {<<Content(MaxContentLen)>>, <<Content(MaxContentLen), Content(1)>>}}
  \cup {[fn |-> "LogAISummaries", summaryText |-> c] : c \in Contents}
  \cup {[fn |-> "LogTelegramMessage", storiesText |-> c] : c \in Contents}

NoCall == [fn |-> "none"]

IsEnabledAlways == TRUE

\* IsEnabled
IsEnabled == config.Enabled /\ isRunning

TruncatedAtLimit(text, maxLength) ==
  IF Len(text) >= maxLength
    THEN SubSeq(text, 1, maxLength) \o Marker
    ELSE text

\* content[:MaxContentLength] + "...[truncated]" for a content that is
\* longer than MaxContentLength
Truncated(text, maxLength) ==
  IF Len(text) > maxLength
    THEN SubSeq(text, 1, maxLength) \o Marker
    ELSE text

\* the contents LogStoryContents records: one for every story that has one
StoryContents(ns, cs) ==
  [i \in 1..(IF ns < Len(cs) THEN ns ELSE Len(cs)) |-> Truncated(cs[i], config.MaxContentLength)]

\* the first part of a Log function: IsEnabled, then the entry
LogCall(in, type, data) ==
  /\ logPc = "idle"
  /\ logCalls < MaxLogCalls
  /\ logCalls' = logCalls + 1
  /\ IF IsEnabled
       THEN /\ logIn' = in
            /\ logEntry' = [Timestamp |-> logCalls + 1, Type |-> type, Data |-> data]
            /\ logPc' = "checked"
       ELSE /\ logIn' = NoCall
            /\ logEntry' = NoEntry
            /\ logPc' = "idle"
  /\ UNCHANGED <<config, isRunning, buffer, stopChan, written, writerPc, writerEntry,
                 closePc, accepted, atClose, fetchVars, chunkVars, sendVars,
                 botVars, cfgVars>>

LogStoryContents ==
  \E in \in LogInputs :
    /\ in.fn = "LogStoryContents"
    /\ LogCall(in, "story_contents", StoryContents(in.stories, in.storyContents))

LogAISummaries ==
  \E in \in LogInputs :
    /\ in.fn = "LogAISummaries"
    /\ LogCall(in, "ai_summaries",
               [RawSummaryText |-> Truncated(in.summaryText, config.MaxContentLength)])

LogTelegramMessage ==
  \E in \in LogInputs :
    /\ in.fn = "LogTelegramMessage"
    /\ LogCall(in, "telegram_message",
               [StoriesText |-> in.storiesText, MessageLength |-> Len(in.storiesText)])

writeEntryOverfill ==
  /\ logPc = "checked"
  /\ logPc' = "idle"
  /\ logIn' = NoCall
  /\ logEntry' = NoEntry
  /\ IF config.AsyncWrite
       THEN /\ buffer' = Append(buffer, logEntry)
            /\ accepted' = accepted \cup {logEntry.Timestamp}
            /\ UNCHANGED <<written, writerPc, writerEntry>>
       ELSE /\ written' = Append(written, logEntry)
            /\ UNCHANGED <<buffer, writerPc, writerEntry, accepted>>
  /\ UNCHANGED <<config, isRunning, stopChan, logCalls, closePc, atClose, fetchVars,
                 chunkVars, sendVars, botVars, cfgVars>>

\* writeEntry: the send on the channel if it is ready, else the default
\* branch; without AsyncWrite, writeToFile.  A nil channel is never ready,
\* a channel without capacity is ready when asyncWriter waits in its
\* select, and then it may be.
writeEntry ==
  /\ logPc = "checked"
  /\ logPc' = "idle"
  /\ logIn' = NoCall
  /\ logEntry' = NoEntry
  /\ IF config.AsyncWrite
       THEN \/ /\ stopChan # "nil"
               /\ Len(buffer) < config.BufferSize
               /\ buffer' = Append(buffer, logEntry)
               /\ accepted' = accepted \cup {logEntry.Timestamp}
               /\ UNCHANGED <<written, writerPc, writerEntry>>
            \/ /\ stopChan = "open"
               /\ config.BufferSize = 0
               /\ writerPc = "select"
               /\ writerEntry' = logEntry
               /\ writerPc' = "write"
               /\ accepted' = accepted \cup {logEntry.Timestamp}
               /\ UNCHANGED <<written, buffer>>
            \/ /\ stopChan = "nil" \/ Len(buffer) >= config.BufferSize
               /\ UNCHANGED <<written, buffer, writerPc, writerEntry, accepted>>
       ELSE /\ written' = Append(written, logEntry)
            /\ UNCHANGED <<buffer, writerPc, writerEntry, accepted>>
  /\ UNCHANGED <<config, isRunning, stopChan, logCalls, closePc, atClose, fetchVars,
                 chunkVars, sendVars, botVars, cfgVars>>

\* asyncWriter: case entry := <-l.buffer
asyncWriterReceive ==
  /\ writerPc = "select"
  /\ buffer # <<>>
  /\ writerEntry' = Head(buffer)
  /\ buffer' = Tail(buffer)
  /\ writerPc' = "write"
  /\ UNCHANGED <<config, isRunning, stopChan, written, logPc, logIn, logEntry, logCalls,
                 closePc, accepted, atClose, fetchVars, chunkVars, sendVars,
                 botVars, cfgVars>>

\* asyncWriter: l.writeToFile(entry), and back to the select
asyncWriterWrite ==
  /\ writerPc = "write"
  /\ written' = Append(written, writerEntry)
  /\ writerEntry' = NoEntry
  /\ writerPc' = "select"
  /\ UNCHANGED <<config, isRunning, buffer, stopChan, logPc, logIn, logEntry, logCalls,
                 closePc, accepted, atClose, fetchVars, chunkVars, sendVars,
                 botVars, cfgVars>>

\* asyncWriter: case <-l.stopChan
asyncWriterStop ==
  /\ writerPc = "select"
  /\ stopChan = "closed"
  /\ writerPc' = "drain"
  /\ UNCHANGED <<config, isRunning, buffer, stopChan, written, writerEntry, logPc, logIn,
                 logEntry, logCalls, closePc, accepted, atClose, fetchVars,
                 chunkVars, sendVars, botVars, cfgVars>>

\* asyncWriter: for len(l.buffer) > 0 { write one }, then return
asyncWriterDrain ==
  /\ writerPc = "drain"
  /\ IF Len(buffer) > 0
       THEN /\ written' = Append(written, Head(buffer))
            /\ buffer' = Tail(buffer)
            /\ UNCHANGED writerPc
       ELSE /\ writerPc' = "exited"
            /\ UNCHANGED <<written, buffer>>
  /\ UNCHANGED <<config, isRunning, stopChan, writerEntry, logPc, logIn, logEntry, logCalls,
                 closePc, accepted, atClose, fetchVars, chunkVars, sendVars,
                 botVars, cfgVars>>

\* Close: if !l.IsEnabled() { return nil }
Close ==
  /\ closePc = "idle"
  /\ closePc' = IF IsEnabled THEN "checked" ELSE "returned"
  /\ atClose' = accepted
  /\ UNCHANGED <<config, isRunning, buffer, stopChan, written, writerPc, writerEntry, logPc,
                 logIn, logEntry, logCalls, accepted, fetchVars, chunkVars,
                 sendVars, botVars, cfgVars>>

\* Close: l.isRunning = false
CloseStop ==
  /\ closePc = "checked"
  /\ isRunning' = FALSE
  /\ closePc' = "stopped"
  /\ UNCHANGED <<config, buffer, stopChan, written, writerPc, writerEntry, logPc, logIn,
                 logEntry, logCalls, accepted, atClose, fetchVars, chunkVars,
                 sendVars, botVars, cfgVars>>

\* Close: close(l.stopChan) with AsyncWrite; the close of a nil channel
\* panics
CloseSignal ==
  /\ closePc = "stopped"
  /\ IF config.AsyncWrite
       THEN IF stopChan = "open"
              THEN /\ stopChan' = "closed"
                   /\ closePc' = "waiting"
              ELSE /\ closePc' = "panic"
                   /\ UNCHANGED stopChan
       ELSE /\ closePc' = "returned"
            /\ UNCHANGED stopChan
  /\ UNCHANGED <<config, isRunning, buffer, written, writerPc, writerEntry, logPc, logIn,
                 logEntry, logCalls, accepted, atClose, fetchVars, chunkVars,
                 sendVars, botVars, cfgVars>>

\* Close: l.wg.Wait() returns when asyncWriter is done
CloseWait ==
  /\ closePc = "waiting"
  /\ writerPc = "exited"
  /\ closePc' = "returned"
  /\ UNCHANGED <<config, isRunning, buffer, stopChan, written, writerPc, writerEntry, logPc,
                 logIn, logEntry, logCalls, accepted, atClose, fetchVars,
                 chunkVars, sendVars, botVars, cfgVars>>

\* NewLogger
InitLog ==
  /\ ConfigIdle
  /\ FetchIdle
  /\ ChunkIdle
  /\ SendIdle
  /\ BotFresh
  /\ config \in Configs
  /\ isRunning = config.Enabled
  /\ buffer = <<>>
  /\ stopChan = IF config.Enabled THEN "open" ELSE "nil"
  /\ written = <<>>
  /\ writerPc = IF config.Enabled /\ config.AsyncWrite THEN "select" ELSE "none"
  /\ writerEntry = NoEntry
  /\ logPc = "idle"
  /\ logIn = NoCall
  /\ logEntry = NoEntry
  /\ logCalls = 0
  /\ closePc = "idle"
  /\ accepted = {}
  /\ atClose = {}

NextLog ==
  \/ LogStoryContents
  \/ LogAISummaries
  \/ LogTelegramMessage
  \/ writeEntry
  \/ asyncWriterReceive
  \/ asyncWriterWrite
  \/ asyncWriterStop
  \/ asyncWriterDrain
  \/ Close
  \/ CloseStop
  \/ CloseSignal
  \/ CloseWait

SpecLog == InitLog /\ [][NextLog]_vars

\* C25: a logger created with Enabled = false is inert: IsEnabled is
\* false, and the three Log functions and Close return without writing a
\* file, enqueuing an entry, touching a channel or failing.
C25_DisabledIsInert ==
  ~config.Enabled =>
    /\ ~IsEnabled
    /\ written = <<>>
    /\ buffer = <<>>
    /\ accepted = {}
      /\ stopChan = "nil"
    /\ writerPc = "none"
    /\ logPc = "idle"
    /\ logEntry = NoEntry
    /\ closePc \in {"idle", "returned"}

C25_Witness ==
  /\ ~config.Enabled
  /\ logCalls = MaxLogCalls
  /\ closePc = "returned"

\* what C26 says of a content c and its record r
RecordedAs(c, r) ==
  LET max == config.MaxContentLength
  IN IF Len(c) > max
       THEN /\ Len(r) = max + 14
            /\ SubSeq(r, 1, max) = SubSeq(c, 1, max)
            /\ SubSeq(r, max + 1, Len(r)) = Marker
       ELSE r = c

\* C26: LogStoryContents and LogAISummaries record a content longer than
\* MaxContentLength as its first MaxContentLength bytes followed by
\* "...[truncated]", MaxContentLength + 14 bytes in all, and any other
\* content unchanged; LogTelegramMessage records the text in full, with
\* MessageLength equal to its length.
C26_Truncation ==
  logPc = "checked" =>
    CASE logIn.fn = "LogStoryContents" ->
           \A i \in 1..Len(logEntry.Data) :
             RecordedAs(logIn.storyContents[i], logEntry.Data[i])
      [] logIn.fn = "LogAISummaries" ->
           RecordedAs(logIn.summaryText, logEntry.Data.RawSummaryText)
      [] logIn.fn = "LogTelegramMessage" ->
           /\ logEntry.Data.StoriesText = logIn.storiesText
           /\ logEntry.Data.MessageLength = Len(logIn.storiesText)

C26_Witness ==
  /\ logPc = "checked"
  /\ logIn.fn = "LogStoryContents"
  /\ Len(logEntry.Data) = 2
  /\ Len(logIn.storyContents[1]) > config.MaxContentLength
  /\ Len(logEntry.Data[1]) = config.MaxContentLength + Len(Marker)
  /\ logEntry.Data[2] = logIn.storyContents[2]
  /\ logEntry.Data[2] # <<>>

\* a step of writeEntry with AsyncWrite
AsyncWriteEntry == logPc = "checked" /\ logPc' = "idle" /\ config.AsyncWrite

\* the entry of that step is discarded: it reaches neither the channel nor
\* asyncWriter nor a file
Discarded ==
  /\ accepted' = accepted
  /\ writerEntry' = writerEntry
  /\ written' = written

\* C28: with AsyncWrite, writeEntry never blocks the caller: if the buffer
\* already holds BufferSize entries the entry is discarded and the buffer is
\* unchanged, otherwise the entry is appended to the buffer.
C28_FullDiscardsElseAppends ==
  /\ [](logPc = "checked" => ENABLED writeEntry)
  /\ [][AsyncWriteEntry =>
          IF Len(buffer) >= config.BufferSize
            THEN buffer' = buffer /\ Discarded
            ELSE buffer' = Append(buffer, logEntry)]_vars

\* C28 as the code has it: a buffer that holds BufferSize entries is left
\* unchanged and the entry is discarded, unless BufferSize is 0 and
\* asyncWriter waits in its select with stopChan open, where the entry
\* may also go straight to asyncWriter.
C28_FullDiscardsUnlessHandedOver ==
  /\ [](logPc = "checked" => ENABLED writeEntry)
  /\ [][AsyncWriteEntry =>
          IF Len(buffer) >= config.BufferSize
            THEN /\ buffer' = buffer
                 /\ \/ Discarded
                    \/ /\ config.BufferSize = 0
                       /\ writerPc = "select"
                       /\ stopChan = "open"
                       /\ writerEntry' = logEntry
                       /\ written' = written
            ELSE /\ buffer' = Append(buffer, logEntry)
                 /\ writerEntry' = writerEntry
                 /\ written' = written]_vars

\* an entry went straight to asyncWriter
C28_Witness ==
  /\ config.AsyncWrite
  /\ config.BufferSize = 0
  /\ buffer = <<>>
  /\ writerPc = "write"
  /\ writerEntry.Timestamp \in accepted

\* the timestamps of the entries passed to writeToFile
WrittenStamps(w) == {w[i].Timestamp : i \in 1..Len(w)}

\* Close returns from l.wg.Wait()
CloseReturns == closePc = "waiting" /\ closePc' = "returned"

\* C29: when Close returns, every entry the buffer accepted before Close
\* was called has been passed to writeToFile, asyncWriter has exited and
\* the buffer is empty.
C29_CloseDrains ==
  [][CloseReturns =>
       /\ atClose \subseteq WrittenStamps(written')
       /\ writerPc' = "exited"
       /\ buffer' = <<>>]_vars

\* the same without the empty buffer
C29_AcceptedBeforeCloseAreWritten ==
  [][CloseReturns =>
       /\ atClose \subseteq WrittenStamps(written')
       /\ writerPc' = "exited"]_vars

(***************************************************************************)
(* The message handler of the bot: processMessages takes updates and       *)
(* starts HandleUserMessage as a goroutine for those of the configured     *)
(* chat; a handler sends replies with sendReply, looks summaries up in     *)
(* storySummaries and stores them there.  The clients are set, as main     *)
(* sets them before it starts the handler.                                 *)
(***************************************************************************)
chatID == 1

Chats == {1, 2}

MessageTexts == {"resend", "1", "2", "help"}

\* the updates: without a message, from another chat, and with each of the
\* texts from the configured chat
Updates ==
  {[message |-> FALSE]}
  \cup {[message |-> TRUE, chat |-> c, text |-> "resend"] : c \in Chats \ {chatID}}
  \cup {[message |-> TRUE, chat |-> chatID, text |-> t] : t \in MessageTexts}

\* strconv.Atoi on the texts: its value, and whether it gives no error
Atoi(text) == CASE text = "1" -> 1 [] text = "2" -> 2 [] OTHER -> 0

IsNumber(text) == text \in {"1", "2"}

\* a summary as parseNumberedSummaries builds it: one entry for every
\* numbered line of the AI's text whose number is that of a story, next to
\* the stories themselves
ParsedSummary(h, date, numbers, stories) ==
  [Date |-> date,
   Stories |-> stories,
   StorySummaries |-> [i \in 1..Len(numbers) |->
                         [Number |-> numbers[i], Title |-> 40, Summary |-> h]]]

\* the summaries SummarizeStoriesWithNumbers may give the handler h: one
\* story with the number 1, or two stories in a text that numbers a line
\* twice
SummariesOf(h, date) ==
  {ParsedSummary(h, date, <<1>>, 1), ParsedSummary(h, date, <<1, 1, 2>>, 2)}

\* no goroutine has panicked
Alive == \A k \in 1..MaxUpdates : handlers[k].pc # "panic"

\* sendReply: the reply and the result the handler sees, TRUE for no error;
\* the handlers look at the result of the processing reply only
Reply(kind, ok) == [kind |-> kind, ok |-> ok]

Unchecked == "unchecked"

Handler(h, rec) ==
  /\ Alive
  /\ handlers' = [handlers EXCEPT ![h] = rec]
  /\ UNCHANGED <<received, procPc, stopHandler, now, fetchVars, chunkVars, sendVars,
                 logVars, cfgVars>>

StartMessageHandler ==
  /\ procPc = "none"
  /\ procPc' = "running"
  /\ UNCHANGED <<storySummaries, received, stopHandler, handlers, now, stores, fetchVars,
                 chunkVars, sendVars, logVars, cfgVars>>

StopMessageHandler ==
  /\ Alive
  /\ procPc # "none"
  /\ stopHandler = "open"
  /\ stopHandler' = "closed"
  /\ UNCHANGED <<storySummaries, received, procPc, handlers, now, stores, fetchVars,
                 chunkVars, sendVars, logVars, cfgVars>>

processMessagesAnyChat ==
  /\ procPc = "running"
  /\ received < MaxUpdates
  /\ \E update \in Updates :
       /\ received' = received + 1
       /\ handlers' =
            [handlers EXCEPT ![received + 1] =
               [@ EXCEPT !.update = update,
                         !.pc = IF update.message THEN "start" ELSE "none"]]
  /\ UNCHANGED <<storySummaries, procPc, stopHandler, now, stores, fetchVars, chunkVars,
                 sendVars, logVars, cfgVars>>

\* processMessages: case update := <-updates
processMessages ==
  /\ Alive
  /\ procPc = "running"
  /\ received < MaxUpdates
  /\ \E update \in Updates :
       /\ received' = received + 1
       /\ handlers' =
            [handlers EXCEPT ![received + 1] =
               [@ EXCEPT !.update = update,
                         !.pc = IF update.message /\ update.chat = chatID
                                  THEN "start" ELSE "none"]]
  /\ UNCHANGED <<storySummaries, procPc, stopHandler, now, stores, fetchVars, chunkVars,
                 sendVars, logVars, cfgVars>>

\* processMessages: case <-b.stopHandler
processMessagesReturn ==
  /\ Alive
  /\ procPc = "running"
  /\ stopHandler = "closed"
  /\ procPc' = "returned"
  /\ UNCHANGED <<storySummaries, received, stopHandler, handlers, now, stores, fetchVars,
                 chunkVars, sendVars, logVars, cfgVars>>

\* the day ends
Midnight ==
  /\ now = "2024-01-01"
  /\ now' = "2024-01-02"
  /\ UNCHANGED <<storySummaries, received, procPc, stopHandler, handlers, stores,
                 fetchVars, chunkVars, sendVars, logVars, cfgVars>>

\* HandleUserMessage: resend, a number, or the help reply
HandleUserMessage(h) ==
  /\ handlers[h].pc = "start"
  /\ LET me == handlers[h]
         message == me.update.text
     IN IF message = "resend"
          THEN Handler(h, [me EXCEPT !.pc = "resend"])
          ELSE IF IsNumber(message)
                 THEN Handler(h, [me EXCEPT !.pc = "story"])
                 ELSE Handler(h, [me EXCEPT !.pc = "done",
                                            !.replies = Append(@, Reply("help", Unchecked))])
  /\ UNCHANGED <<storySummaries, stores>>

\* handleStoryRequest: the processing reply and today
handleStoryRequest(h) ==
  /\ handlers[h].pc = "story"
  /\ LET me == handlers[h]
     IN \E ok \in BOOLEAN :
          Handler(h, [me EXCEPT !.replies = Append(@, Reply("processing", ok)),
                                !.today = IF ok THEN now ELSE @,
                                !.pc = IF ok THEN "lookup" ELSE "done"])
  /\ UNCHANGED <<storySummaries, stores>>

\* SendDetailedSummary: the summary of the date and the story in it;
\* summary.Stories[i] panics for an index beyond the stories
LookupSummary(h) ==
  /\ handlers[h].pc = "lookup"
  /\ LET me == handlers[h]
         summary == storySummaries[me.today]
         i == StoryIndex(summary, Atoi(me.update.text))
     IN IF summary = NoSummary \/ i = 0
          THEN Handler(h, [me EXCEPT !.err = TRUE, !.pc = "storyReply"])
          ELSE IF i > summary.Stories
                 THEN Handler(h, [me EXCEPT !.pc = "panic"])
                 ELSE Handler(h, [me EXCEPT !.summary = summary, !.story = i,
                                            !.pc = "detail"])
  /\ UNCHANGED <<storySummaries, stores>>

\* SendDetailedSummary: GetStoryContent and GenerateDetailedSummary
DetailSummary(h) ==
  /\ handlers[h].pc = "detail"
  /\ LET me == handlers[h]
     IN \E aiOk \in BOOLEAN :
          Handler(h, [me EXCEPT !.fetches = @ + 1,
                                !.ai = @ + 1,
                                !.err = ~aiOk,
                                !.pc = IF aiOk THEN "deliver" ELSE "storyReply"])
  /\ UNCHANGED <<storySummaries, stores>>

\* SendDetailedSummary: the messages, and the error of the first that fails
DeliverDetail(h) ==
  /\ handlers[h].pc = "deliver"
  /\ LET me == handlers[h]
     IN \E ok \in BOOLEAN :
          Handler(h, [me EXCEPT !.sent = @ + 1, !.err = ~ok, !.pc = "storyReply"])
  /\ UNCHANGED <<storySummaries, stores>>

\* handleStoryRequest: the error reply or the completion reply
CompleteStoryRequest(h) ==
  /\ handlers[h].pc = "storyReply"
  /\ LET me == handlers[h]
     IN Handler(h, [me EXCEPT
                      !.replies = Append(@, Reply(IF me.err THEN "error" ELSE "completion",
                                                  Unchecked)),
                      !.pc = "done"])
  /\ UNCHANGED <<storySummaries, stores>>

\* handleResendRequest: the processing reply and today
handleResendRequest(h) ==
  /\ handlers[h].pc = "resend"
  /\ LET me == handlers[h]
     IN \E ok \in BOOLEAN :
          Handler(h, [me EXCEPT !.replies = Append(@, Reply("processing", ok)),
                                !.today = IF ok THEN now ELSE @,
                                !.pc = IF ok THEN "process" ELSE "done"])
  /\ UNCHANGED <<storySummaries, stores>>

\* ProcessDailySummary up to the summary: GetTopStoriesByDate fails, finds
\* no story, or SummarizeStoriesWithNumbers fails or gives the summary
ProcessDailySummary(h) ==
  /\ handlers[h].pc = "process"
  /\ LET me == handlers[h]
     IN \/ \E outcome \in {"fetchFailed", "noStories", "aiFailed"} :
             CASE outcome = "fetchFailed" ->
                    Handler(h, [me EXCEPT !.fetches = @ + 1, !.err = TRUE,
                                          !.pc = "resendReply"])
               [] outcome = "noStories" ->
                    Handler(h, [me EXCEPT !.fetches = @ + 1, !.pc = "resendReply"])
               [] outcome = "aiFailed" ->
                    Handler(h, [me EXCEPT !.fetches = @ + 2, !.ai = @ + 1, !.err = TRUE,
                                          !.pc = "resendReply"])
        \/ \E summary \in SummariesOf(h, me.today) :
             Handler(h, [me EXCEPT !.fetches = @ + 2, !.ai = @ + 1, !.summary = summary,
                                   !.pc = "store"])
  /\ UNCHANGED <<storySummaries, stores>>

\* SendDailySummaryWithNumbers: b.storySummaries[summary.Date] = summary
StoreSummary(h) ==
  /\ handlers[h].pc = "store"
  /\ LET me == handlers[h]
     IN /\ storySummaries' = [storySummaries EXCEPT ![me.summary.Date] = me.summary]
        /\ stores' = Append(stores, me.summary)
        /\ Handler(h, [me EXCEPT !.pc = "deliverSummary"])

DeliverSummaryThenForget(h) ==
  /\ handlers[h].pc = "deliverSummary"
  /\ LET me == handlers[h]
     IN \E ok \in BOOLEAN :
          /\ Handler(h, [me EXCEPT !.sent = @ + 1, !.err = ~ok, !.pc = "resendReply"])
          /\ storySummaries' =
               IF ok THEN storySummaries
               ELSE [storySummaries EXCEPT ![me.summary.Date] = NoSummary]
  /\ UNCHANGED stores

\* SendDailySummaryWithNumbers: the messages, and the error of the first
\* that fails
DeliverSummary(h) ==
  /\ handlers[h].pc = "deliverSummary"
  /\ LET me == handlers[h]
     IN \E ok \in BOOLEAN :
          Handler(h, [me EXCEPT !.sent = @ + 1, !.err = ~ok, !.pc = "resendReply"])
  /\ UNCHANGED <<storySummaries, stores>>

\* handleResendRequest: the error reply or the completion reply
CompleteResendRequest(h) ==
  /\ handlers[h].pc = "resendReply"
  /\ LET me == handlers[h]
     IN Handler(h, [me EXCEPT
                      !.replies = Append(@, Reply(IF me.err THEN "error" ELSE "completion",
                                                  Unchecked)),
                      !.pc = "done"])
  /\ UNCHANGED <<storySummaries, stores>>

InitBot ==
  /\ ConfigIdle
  /\ FetchIdle
  /\ ChunkIdle
  /\ SendIdle
  /\ LogIdle
  /\ BotFresh

NextBot ==
  \/ StartMessageHandler
  \/ StopMessageHandler
  \/ processMessages
  \/ processMessagesReturn
  \/ Midnight
  \/ \E h \in 1..MaxUpdates : HandleUserMessage(h)
  \/ \E h \in 1..MaxUpdates : handleStoryRequest(h)
  \/ \E h \in 1..MaxUpdates : LookupSummary(h)
  \/ \E h \in 1..MaxUpdates : DetailSummary(h)
  \/ \E h \in 1..MaxUpdates : DeliverDetail(h)
  \/ \E h \in 1..MaxUpdates : CompleteStoryRequest(h)
  \/ \E h \in 1..MaxUpdates : handleResendRequest(h)
  \/ \E h \in 1..MaxUpdates : ProcessDailySummary(h)
  \/ \E h \in 1..MaxUpdates : StoreSummary(h)
  \/ \E h \in 1..MaxUpdates : DeliverSummary(h)
  \/ \E h \in 1..MaxUpdates : CompleteResendRequest(h)

SpecBot == InitBot /\ [][NextBot]_vars

\* C27: processMessages starts HandleUserMessage only for an update that
\* carries a message of the configured chat; for an update without a
\* message or from another chat there is no handler, no reply, no fetch
\* and no AI call.
C27_OnlyConfiguredChat ==
  \A h \in 1..received :
    LET me == handlers[h]
    IN /\ me.pc # "none" => me.update.message /\ me.update.chat = chatID
       /\ (~me.update.message \/ me.update.chat # chatID) =>
            /\ me.pc = "none"
            /\ me.replies = <<>>
            /\ me.fetches = 0
            /\ me.ai = 0
            /\ me.sent = 0

C27_Witness ==
  /\ received = 2
  /\ handlers[1].update.message /\ handlers[1].update.chat # chatID
  /\ handlers[1].update.text = "resend"
  /\ handlers[2].pc = "done"
  /\ handlers[2].fetches > 0

\* the summary stored last for the date d, NoSummary if there is none
LastStored(ss, d) ==
  LET idx == {i \in 1..Len(ss) : ss[i].Date = d}
  IN IF idx = {} THEN NoSummary
     ELSE ss[CHOOSE i \in idx : \A j \in idx : j <= i]

\* the steps of the handler h: SendDailySummaryWithNumbers stores, it
\* returns, SendDetailedSummary has found a summary
Stores(h) == handlers[h].pc = "store" /\ handlers'[h].pc = "deliverSummary"

SummaryCallReturns(h) == handlers[h].pc = "deliverSummary" /\ handlers'[h].pc = "resendReply"

Finds(h) == handlers[h].pc = "lookup" /\ handlers'[h].pc = "detail"

\* the store comes before any message of the call and changes the entry
\* of the date only; a later SendDetailedSummary finds the summary stored
\* last for its date
StoredFirstAndFound(h) ==
  /\ Stores(h) =>
       /\ handlers[h].sent = 0
       /\ storySummaries' =
            [storySummaries EXCEPT ![handlers[h].summary.Date] = handlers[h].summary]
  /\ Finds(h) => handlers'[h].summary = LastStored(stores, handlers[h].today)

\* C30: SendDailySummaryWithNumbers stores the summary under its date
\* before anything is sent; after the call storySummaries[summary.Date] is
\* that summary whether or not sending succeeded, the entries of other
\* dates are unchanged, and a later SendDetailedSummary for that date finds
\* the summary stored most recently.
C30_StoredIsThatSummary ==
  [][\A h \in 1..MaxUpdates :
       /\ StoredFirstAndFound(h)
       /\ SummaryCallReturns(h) =>
            storySummaries'[handlers[h].summary.Date] = handlers[h].summary]_vars

\* C30 for calls that overlap: after the call the entry of the date is the
\* summary stored last for it, which is the summary of the call unless
\* another call stored one for the same date after it
C30_StoredIsLastStored ==
  [][\A h \in 1..MaxUpdates :
       /\ StoredFirstAndFound(h)
       /\ SummaryCallReturns(h) =>
            /\ storySummaries'[handlers[h].summary.Date]
                 = LastStored(stores, handlers[h].summary.Date)
            /\ \E i \in 1..Len(stores) :
                 /\ stores[i] = handlers[h].summary
                 /\ (\A j \in (i + 1)..Len(stores) : stores[j].Date # stores[i].Date)
                      => storySummaries'[stores[i].Date] = handlers[h].summary]_vars

\* two calls stored for the same date and the one that stored first has
\* returned with an error: the entry of the date is the second summary
C30_Witness ==
  /\ Len(stores) = 2
  /\ stores[1].Date = stores[2].Date
  /\ storySummaries[stores[1].Date] = stores[2]
  /\ \E h \in 1..MaxUpdates :
       /\ handlers[h].summary = stores[1]
       /\ handlers[h].pc = "done"
       /\ handlers[h].err

\* the handler h serves a story or resend request
IsRequest(h) ==
  /\ handlers[h].update.message
  /\ handlers[h].update.text = "resend" \/ IsNumber(handlers[h].update.text)

\* the reply protocol but for the reply that ends it: the processing
\* reply comes first, nothing follows it if it fails, and the work comes
\* before the one reply that may follow
ProtocolSoFar(h) ==
  LET me == handlers[h]
  IN /\ me.replies = <<>> => me.fetches = 0 /\ me.ai = 0 /\ me.sent = 0
     /\ me.replies # <<>> => me.replies[1].kind = "processing"
     /\ (me.replies # <<>> /\ ~me.replies[1].ok) =>
          /\ me.pc = "done"
          /\ Len(me.replies) = 1
          /\ me.fetches = 0 /\ me.ai = 0 /\ me.sent = 0
     /\ Len(me.replies) <= 2
     /\ Len(me.replies) = 2 =>
          /\ me.pc = "done"
          /\ me.replies[2].kind = IF me.err THEN "error" ELSE "completion"

\* the handler h has come to its end, by return or by panic
Ended(h) == handlers[h].pc \in {"done", "panic"}

\* C31: the processing reply is sent first; if that send fails nothing else
\* happens, no fetch, no AI call, no further reply; otherwise the work runs
\* and exactly one of the completion reply and the error reply is sent
\* after it.
C31_ReplyProtocol ==
  \A h \in 1..received :
    IsRequest(h) =>
      /\ ProtocolSoFar(h)
      /\ (Ended(h) /\ handlers[h].replies[1].ok) => Len(handlers[h].replies) = 2

\* the same for the requests whose goroutine does not panic
C31_ReplyProtocolUnlessPanic ==
  \A h \in 1..received :
    IsRequest(h) =>
      /\ ProtocolSoFar(h)
      /\ (handlers[h].pc = "done" /\ handlers[h].replies[1].ok) =>
           Len(handlers[h].replies) = 2

(***************************************************************************)
(* The configuration: Load reads and decodes the file and stores the       *)
(* global pointer, the callback that watchConfig registers does the same   *)
(* for every change of the file, one after the other, and GetConfig reads  *)
(* the pointer.  A file is its version and whether ReadInConfig and        *)
(* Unmarshal accept it.                                                    *)
(***************************************************************************)
MaxChanges == 3

FileStates == {"ok", "unreadable", "undecodable"}

\* the file is written; the watcher, started by Load, notes the change
WriteFile ==
  /\ cfgFile.version < 1 + MaxChanges
  /\ \E st \in FileStates : cfgFile' = [version |-> cfgFile.version + 1, state |-> st]
  /\ pending' = IF loadPc = "done" THEN pending + 1 ELSE pending
  /\ UNCHANGED <<viperConfig, globalConfig, configMutex, loadPc, reloadPc, newConfig, getPc,
                 seen, loaded, fetchVars, chunkVars, sendVars, botVars, logVars>>

\* the lock and unlock of configMutex by a writer
Lock(who) ==
  /\ configMutex = [writer |-> "none", readers |-> 0]
  /\ configMutex' = [configMutex EXCEPT !.writer = who]

Unlock == configMutex' = [configMutex EXCEPT !.writer = "none"]

\* the configuration Unmarshal builds from what viper has read: complete
\* unless a value does not decode
Unmarshal(read) == [version |-> read.version, complete |-> read.state = "ok"]

\* Load: ReadInConfig and Unmarshal
Load ==
  /\ loadPc = "start"
  /\ IF cfgFile.state = "unreadable"
       THEN /\ loadPc' = "failed"
            /\ UNCHANGED <<viperConfig, newConfig>>
       ELSE /\ viperConfig' = cfgFile
            /\ newConfig' = Unmarshal(cfgFile)
            /\ loadPc' = IF cfgFile.state = "ok" THEN "lock" ELSE "failed"
  /\ UNCHANGED <<cfgFile, globalConfig, configMutex, reloadPc, pending, getPc, seen, loaded,
                 fetchVars, chunkVars, sendVars, botVars, logVars>>

\* Load: configMutex.Lock()
LoadLock ==
  /\ loadPc = "lock"
  /\ Lock("Load")
  /\ loadPc' = "store"
  /\ UNCHANGED <<cfgFile, viperConfig, globalConfig, reloadPc, newConfig, pending, getPc,
                 seen, loaded, fetchVars, chunkVars, sendVars, botVars, logVars>>

\* Load: globalConfig = &config
LoadStore ==
  /\ loadPc = "store"
  /\ globalConfig' = newConfig
  /\ loaded' = Append(loaded, newConfig.version)
  /\ loadPc' = "unlock"
  /\ UNCHANGED <<cfgFile, viperConfig, configMutex, reloadPc, newConfig, pending, getPc,
                 seen, fetchVars, chunkVars, sendVars, botVars, logVars>>

\* Load: configMutex.Unlock(), go watchConfig(v)
LoadUnlock ==
  /\ loadPc = "unlock"
  /\ Unlock
  /\ loadPc' = "done"
  /\ UNCHANGED <<cfgFile, viperConfig, globalConfig, reloadPc, newConfig, pending, getPc,
                 seen, loaded, fetchVars, chunkVars, sendVars, botVars, logVars>>

\* the callback: v.ReadInConfig()
ReloadRead ==
  /\ reloadPc = "idle"
  /\ pending > 0
  /\ pending' = pending - 1
  /\ IF cfgFile.state = "unreadable"
       THEN UNCHANGED <<viperConfig, reloadPc>>
       ELSE /\ viperConfig' = cfgFile
            /\ reloadPc' = "unmarshal"
  /\ UNCHANGED <<cfgFile, globalConfig, configMutex, loadPc, newConfig, getPc, seen, loaded,
                 fetchVars, chunkVars, sendVars, botVars, logVars>>

ReloadUnmarshalNoCheck ==
  /\ reloadPc = "unmarshal"
  /\ newConfig' = Unmarshal(viperConfig)
  /\ reloadPc' = "lock"
  /\ UNCHANGED <<cfgFile, viperConfig, globalConfig, configMutex, loadPc, pending, getPc,
                 seen, loaded, fetchVars, chunkVars, sendVars, botVars, logVars>>

\* the callback: v.Unmarshal(&newConfig)
ReloadUnmarshal ==
  /\ reloadPc = "unmarshal"
  /\ newConfig' = Unmarshal(viperConfig)
  /\ reloadPc' = IF viperConfig.state = "ok" THEN "lock" ELSE "idle"
  /\ UNCHANGED <<cfgFile, viperConfig, globalConfig, configMutex, loadPc, pending, getPc,
                 seen, loaded, fetchVars, chunkVars, sendVars, botVars, logVars>>

\* the callback: configMutex.Lock()
ReloadLock ==
  /\ reloadPc = "lock"
  /\ Lock("reload")
  /\ reloadPc' = "store"
  /\ UNCHANGED <<cfgFile, viperConfig, globalConfig, loadPc, newConfig, pending, getPc, seen,
                 loaded, fetchVars, chunkVars, sendVars, botVars, logVars>>

\* the callback: globalConfig = &newConfig
ReloadStore ==
  /\ reloadPc = "store"
  /\ globalConfig' = newConfig
  /\ loaded' = Append(loaded, newConfig.version)
  /\ reloadPc' = "unlock"
  /\ UNCHANGED <<cfgFile, viperConfig, configMutex, loadPc, newConfig, pending, getPc, seen,
                 fetchVars, chunkVars, sendVars, botVars, logVars>>

\* the callback: configMutex.Unlock()
ReloadUnlock ==
  /\ reloadPc = "unlock"
  /\ Unlock
  /\ reloadPc' = "idle"
  /\ UNCHANGED <<cfgFile, viperConfig, globalConfig, loadPc, newConfig, pending, getPc, seen,
                 loaded, fetchVars, chunkVars, sendVars, botVars, logVars>>

\* GetConfig: configMutex.RLock()
GetConfigRLock ==
  /\ getPc = "idle"
  /\ configMutex.writer = "none"
  /\ configMutex' = [configMutex EXCEPT !.readers = @ + 1]
  /\ getPc' = "locked"
  /\ UNCHANGED <<cfgFile, viperConfig, globalConfig, loadPc, reloadPc, newConfig, pending,
                 seen, loaded, fetchVars, chunkVars, sendVars, botVars, logVars>>

\* GetConfig: return globalConfig
GetConfig ==
  /\ getPc = "locked"
  /\ seen' = globalConfig
  /\ getPc' = "read"
  /\ UNCHANGED <<cfgFile, viperConfig, globalConfig, configMutex, loadPc, reloadPc,
                 newConfig, pending, loaded, fetchVars, chunkVars, sendVars, botVars,
                 logVars>>

\* GetConfig: the deferred configMutex.RUnlock()
GetConfigRUnlock ==
  /\ getPc = "read"
  /\ configMutex' = [configMutex EXCEPT !.readers = @ - 1]
  /\ getPc' = "idle"
  /\ UNCHANGED <<cfgFile, viperConfig, globalConfig, loadPc, reloadPc, newConfig, pending,
                 seen, loaded, fetchVars, chunkVars, sendVars, botVars, logVars>>

InitConfig ==
  /\ FetchIdle
  /\ ChunkIdle
  /\ SendIdle
  /\ BotFresh
  /\ LogIdle
  /\ cfgFile \in {[version |-> 1, state |-> st] : st \in FileStates}
  /\ viperConfig = [version |-> 0, state |-> "ok"]
  /\ globalConfig = NilConfig
  /\ configMutex = [writer |-> "none", readers |-> 0]
  /\ loadPc = "start"
  /\ reloadPc = "idle"
  /\ newConfig = NilConfig
  /\ pending = 0
  /\ getPc = "idle"
  /\ seen = NilConfig
  /\ loaded = <<>>

NextConfig ==
  \/ WriteFile
  \/ Load
  \/ LoadLock
  \/ LoadStore
  \/ LoadUnlock
  \/ ReloadRead
  \/ ReloadUnmarshal
  \/ ReloadLock
  \/ ReloadStore
  \/ ReloadUnlock
  \/ GetConfigRLock
  \/ GetConfig
  \/ GetConfigRUnlock

SpecConfig == InitConfig /\ [][NextConfig]_vars

\* the configuration loaded last with success, NilConfig before the first
MostRecent ==
  IF loaded = <<>> THEN NilConfig
  ELSE [version |-> loaded[Len(loaded)], complete |-> TRUE]

\* a reload ends with the failure of its read or of its unmarshal
ReloadFails ==
  \/ reloadPc = "idle" /\ pending' < pending /\ reloadPc' = "idle"
  \/ reloadPc = "unmarshal" /\ reloadPc' = "idle"

\* C32: GetConfig returns the most recent successfully loaded
\* configuration; a reload whose read or unmarshal fails leaves the global
\* configuration unchanged; the global pointer is read and written under
\* configMutex only, and a reader never sees a partially built
\* configuration.
C32_HotReload ==
  /\ [](getPc = "read" => seen = MostRecent)
  /\ [](seen = NilConfig \/ seen.complete)
  /\ [][/\ ReloadFails => globalConfig' = globalConfig
        /\ globalConfig' # globalConfig =>
             configMutex.writer # "none" /\ configMutex.readers = 0
        /\ seen' # seen => configMutex.readers > 0 /\ configMutex.writer = "none"]_vars

\* GetConfig has returned a reloaded configuration while the file holds a
\* later version that a reload has refused
C32_Witness ==
  /\ getPc = "read"
  /\ seen.version > 1
  /\ cfgFile.version > seen.version
  /\ cfgFile.state # "ok"
  /\ pending = 0
  /\ reloadPc = "idle"

\* C33: once a sendMessage call returns an error, that error is returned
\* to the caller and no later chunk is sent; if the title message fails no
\* content chunk is sent, and the title is sent before any content chunk.
C33_StopsAtFirstFailure ==
  /\ [](cErr => cPc = "done")
  /\ []((cErr /\ sPc = "done") => sErr)
  /\ []((sErr /\ sPc = "done" /\ cPc = "idle") => Len(sent) <= 1)
  /\ [](\A i \in 1..Len(sent) :
          sent[i].para >= 0 =>
            /\ i > 1
            /\ sent[1].para < 0
            /\ sIn.kind = "daily" => sent[1].msg = DailyTitle)
  /\ [][(cErr \/ sErr) => sent' = sent]_vars

\* SendDailySummary has sent the title and a chunk, and returns the error
\* of a chunk of sendVeryLongParagraph
C33_Witness ==
  /\ sIn.kind = "daily"
  /\ sPc = "done"
  /\ sErr
  /\ cErr
  /\ Len(sent) >= 3
  /\ sent[Len(sent)].para > 0

(***************************************************************************)
(* The fetcher under fair scheduling: the Go scheduler runs every runnable *)
(* goroutine and every store request returns, so a step of the fetcher     *)
(* that stays possible is taken                                            *)
(***************************************************************************)
\* the calls the program makes: GetStoryWithComments hands storyDepth to
\* getCommentsParallel and getComment hands on one less; a direct call
\* is given a depth up to storyDepth
InitFair ==
  /\ Init
  /\ entry.depth <= storyDepth

SpecFair == InitFair /\ [][Next]_vars /\ WF_vars(Next)

\* every call has returned and no goroutine is left
Terminated ==
  /\ mainPc = "done"
  /\ \A c \in CallIds : callState[c] # "active"
  /\ \A t \in CommentIds : pc[t] \in {"none", "done"}

\* a goroutine that holds a result for commentChan can send it at once
SendReady(t) ==
  /\ closed[owner[t]] = 0
  /\ Len(chan[owner[t]]) < Len(callIds[owner[t]])

\* C34: getCommentsParallel neither deadlocks nor panics on its channel:
\* provided every store request returns, the call terminates for every id
\* list; no task blocks on sending its result, the channel is closed exactly
\* once and only after every task of the call has finished, and no task
\* sends on it after it is closed.
C34_NoDeadlockNoPanic ==
  /\ <>Terminated
  /\ [](~panicked)
  /\ [](\A t \in CommentIds : pc[t] = "resolved" => SendReady(t))
  /\ [](\A c \in CallIds :
          /\ closed[c] <= 1
          /\ closed[c] > 0 => \A t \in Elems(callIds[c]) : pc[t] = "done")
  /\ [][\A c \in CallIds :
          /\ closed[c] > 0 => (closed'[c] = closed[c] /\ Len(chan'[c]) <= Len(chan[c]))
       ]_vars

\* a call on three ids has returned after its channel held three results
\* at once and was closed
C34_Witness ==
  /\ Terminated
  /\ ~panicked
  /\ Len(callIds[Root]) = 3
  /\ Len(result) = 3
  /\ closed[Root] = 1

====
